---- MODULE Spec2Model ----
(***************************************************************************)
(* Item Piles (scripts/api.js): the mutation coordinator and the item      *)
(* transfer reconciliation it performs on the privileged (GM) executor.    *)
(*                                                                         *)
(* Spec      the item operations addItems / removeItems / transferItems /  *)
(*           transferAllItems, the attribute operations addAttributes /    *)
(*           removeAttributes / transferAttributes / transferAllAttributes,*)
(*           transferEverything and deleteItemPile, each request executed  *)
(*           alone on the GM.                                              *)
(* SpecPile  the container state machine (open / close / lock / unlock /   *)
(*           toggles / rattle / click / updateItemPile), the UPDATE_PILE   *)
(*           handler split at its awaits, so that handlers overlap.        *)
(* SpecCreate  createItemPile, drops on the canvas, the DROP_ITEMS handler *)
(*           and _createItemPile split at its awaits.                      *)
(* SpecRace  removeItems and transferItems with their handlers in flight:  *)
(*           _removeItems split between its read loop and its writes.      *)
(*                                                                         *)
(* An inventory line is [id, name, type, qty]: qty is the value stored at  *)
(* ITEM_QUANTITY_ATTRIBUTE (a nested path such as "data.quantity"), type   *)
(* the value at ITEM_TYPE_ATTRIBUTE.  A request entry carries its own      *)
(* top-level key "quantity"; a JS value that is undefined is a record      *)
(* without that key.                                                       *)
(***************************************************************************)
EXTENDS Integers, Sequences, FiniteSets, TLC

\* ------------------------------------------------------------------ bounds
MaxQty == 2         \* line quantities in Init and requested quantities: 0..MaxQty
MaxEntries == 2     \* entries in one request's items list
MaxOps == 2         \* item requests in one behaviour
MaxRequests == 2    \* pile requests issued in one behaviour of SpecPile
MaxHandlers == 2    \* CREATE_PILE and DROP_ITEMS requests in one behaviour of SpecCreate
MaxDistance == 2    \* distances, in grid units, from a dropping token to a pile

\* ------------------------------------------------------------- vocabulary
Piles == {"A", "B"}

\* The item identities (name, type) that occur.
Kinds == { [name |-> "sword", type |-> "weapon"],
           [name |-> "gem",   type |-> "treasure"] }

\* game.macros: the macros that exist in the world.
Macros == {"loot"}

\* The module setting "itemTypeFilters" (item types hidden from item piles).
ITEM_TYPE_FILTERS == {}

VARIABLES
    \* ---- the document store, items side
    items,              \* items[p]: the embedded Item collection of p's actor, in order
    exists,             \* exists[p]: the document of p has not been deleted
    cfg,                \* cfg[p]: [isToken, enabled, deleteWhenEmpty, macro], p's pile flags
    attrs,              \* attrs[p]: the pile attribute (currency) value of p's actor
    deleteEmptyPiles,   \* the module setting "deleteEmptyPiles"
    nextId,             \* the next fresh embedded-document id
    isGMConnected,      \* a GM, the executor of the requests, is connected
    \* ---- history of the item requests
    nOps,               \* item requests executed so far
    lastOp,             \* the last item request: inputs, result, store before it, effects
    prevOp,             \* the request before it
    \* ---- the container state machine
    pile,               \* stored pile data of the container: [enabled, isContainer, closed, locked]
    view,               \* the calling client's copy of that data (it lags behind the store)
    reqs,               \* the calls made: reqs[i] = [op, pc, was, preHook, sounds, called, by, newData, oldData, data, diff, pre, macros, fired]
    lastWriter,         \* index of the request whose handler wrote the store last, 0 if none
    sounds,             \* sounds played by the clients, in order
    effects,            \* macros run and broadcasts made by the executor, in order
    rawUpdate,          \* updateItemPile has been called directly with caller-made newData
    \* ---- the executor's handlers in flight, pile creation and canvas drops
    actors,             \* game.actors: the template actors, [id, name, actorLink]
    defaultItemPileActorID, \* the module setting "defaultItemPileActorID", 0 when unset
    handlers,           \* the handlers started on the executor and the step each is at
    pileTokens,         \* the pile tokens created on the scene: [actor, linked, items]
    site                \* site[p]: the lock and range flags of pile token p on the scene

dropVars == <<actors, defaultItemPileActorID, handlers, pileTokens, site>>
itemVars == <<items, exists, cfg, attrs, deleteEmptyPiles, nextId, isGMConnected,
              nOps, lastOp, prevOp, dropVars>>
pileVars == <<pile, view, reqs, lastWriter, sounds, effects, rawUpdate>>
vars == <<itemVars, pileVars>>

\* ---------------------------------------------------------------- helpers
Min2(a, b) == IF a <= b THEN a ELSE b

\* Body applied to the value of v: `const x = await v; Body(x)`, v evaluated
\* once.
Once(v, Body(_)) == CHOOSE r \in { Body(x) : x \in {v} } : TRUE

\* Positions of a sequence holding a given element.
IndicesOf(s, e) == { i \in 1..Len(s) : s[i] = e }

Max2(a, b) == IF a >= b THEN a ELSE b

MinOf(S) == CHOOSE i \in S : \A j \in S : i <= j

Range(s) == { s[i] : i \in 1..Len(s) }

\* All sequences over S of length 1..n.
RECURSIVE SeqsUpTo(_, _)
SeqsUpTo(S, n) ==
    IF n = 0 THEN {}
    ELSE { <<x>> : x \in S } \cup
         { Append(s, x) : s \in SeqsUpTo(S, n - 1), x \in S }

\* Index of the line with this id (Collection.get), 0 when there is none.
LineIndex(lines, id) ==
    LET hits == { i \in 1..Len(lines) : lines[i].id = id }
    IN IF hits = {} THEN 0 ELSE MinOf(hits)

\* Total quantity of one identity (name, type) held in a collection.
RECURSIVE QtyOf(_, _)
QtyOf(lines, k) ==
    IF lines = <<>> THEN 0
    ELSE (IF Head(lines).name = k.name /\ Head(lines).type = k.type
          THEN Head(lines).qty ELSE 0) + QtyOf(Tail(lines), k)

\* ------------------------------------------------- lib.js (not in src/)
\* lib.getSimilarItem: the first line, in collection order, with the same id
\* or the same name and type; 0 stands for "none found".
getSimilarItem(its, itemId, itemName, itemType) ==
    LET hits == { i \in 1..Len(its) :
                    \/ its[i].id = itemId
                    \/ (its[i].name = itemName /\ its[i].type = itemType) }
    IN IF hits = {} THEN 0 ELSE MinOf(hits)

\* lib.getDocumentItems: the lines whose type is not filtered out; without an
\* explicit filter array the module setting is used.
getDocumentItems(lines, itemTypeFilters) ==
    LET filters == IF itemTypeFilters.given THEN itemTypeFilters.types
                   ELSE ITEM_TYPE_FILTERS
    IN SelectSeq(lines, LAMBDA l : l.type \notin filters)

\* lib.isValidItemPile: an existing document whose pile flags are enabled.
isValidItemPile(w, p) == w.exists[p] /\ cfg[p].enabled

\* lib.isItemPileEmpty: no items and no attribute with a positive value.
isItemPileEmpty(w, p) == Len(w.items[p]) = 0 /\ ~(w.attrs[p] > 0)

\* --------------------------------------------- the document store (host)
\* Actor.updateEmbeddedDocuments("Item", updates): applied in order.
RECURSIVE updateEmbeddedDocuments(_, _)
updateEmbeddedDocuments(lines, updates) ==
    IF updates = <<>> THEN lines
    ELSE LET u == Head(updates)
             i == LineIndex(lines, u.id)
         IN updateEmbeddedDocuments(
                IF i = 0 THEN lines ELSE [lines EXCEPT ![i].qty = u.qty],
                Tail(updates))

\* Actor.deleteEmbeddedDocuments("Item", ids).
deleteEmbeddedDocuments(lines, ids) ==
    SelectSeq(lines, LAMBDA l : l.id \notin Range(ids))

\* Actor.createEmbeddedDocuments("Item", data): each created document gets a
\* fresh id (keepId is not set); they are appended in order.
createEmbeddedDocuments(firstId, data) ==
    [ i \in 1..Len(data) |-> [data[i] EXCEPT !.id = firstId + i - 1] ]

\* ------------------------------------------------------- effects (log)
Write(p)             == [e |-> "write", pile |-> p]
Broadcast(h, hook)   == [e |-> "executeForEveryone", handler |-> h, hook |-> hook]
MacroRun(p, action)  == [e |-> "macro", pile |-> p, action |-> action]
Deleted(p)           == [e |-> "delete", pile |-> p]
Checked(p)           == [e |-> "check", pile |-> p]

\* API.rerenderItemPileInventoryApplication
rerenderItemPileInventoryApplication(w, p) ==
    [w EXCEPT !.log = Append(@, Broadcast("RERENDER_PILE_INVENTORY", p))]

\* API._executeItemPileMacro: no-op unless the target is a valid pile with a
\* macro configured; throws when the configured macro does not exist.
_executeItemPileMacro(w, targetUuid, action) ==
    IF w.failed THEN w
    ELSE IF ~isValidItemPile(w, targetUuid) THEN w
    ELSE IF cfg[targetUuid].macro = "" THEN w
    ELSE IF cfg[targetUuid].macro \notin Macros THEN [w EXCEPT !.failed = TRUE]
    ELSE [w EXCEPT !.log = Append(@, MacroRun(targetUuid, action))]

\* The resolution of deleteWhenEmpty as it would be if "default" never
\* resolved to deletion.
shouldDeleteDefaultNever(deleteWhenEmpty, setting) ==
    deleteWhenEmpty = "true"

\* The resolution of deleteWhenEmpty against the module setting.
shouldDelete(deleteWhenEmpty, setting) ==
    CASE deleteWhenEmpty = "default" -> setting
      [] deleteWhenEmpty = "true"    -> TRUE
      [] deleteWhenEmpty = "false"   -> FALSE

\* _checkItemPileShouldBeDeleted as it would be if deleteWhenEmpty were not
\* consulted.
_checkItemPileShouldBeDeletedWheneverEmpty(w, targetUuid) ==
    IF ~(w.exists[targetUuid] /\ cfg[targetUuid].isToken) THEN FALSE
    ELSE /\ cfg[targetUuid].enabled
         /\ isItemPileEmpty(w, targetUuid)

\* API._checkItemPileShouldBeDeleted
_checkItemPileShouldBeDeleted(w, targetUuid) ==
    IF ~(w.exists[targetUuid] /\ cfg[targetUuid].isToken) THEN FALSE
    ELSE /\ cfg[targetUuid].enabled
         /\ shouldDelete(cfg[targetUuid].deleteWhenEmpty, deleteEmptyPiles)
         /\ isItemPileEmpty(w, targetUuid)

\* API._deleteItemPile: the token document, and with it its actor data, goes.
_deleteItemPile(w, targetUuid) ==
    IF w.failed THEN w
    ELSE IF ~w.exists[targetUuid] THEN [w EXCEPT !.failed = TRUE]
    ELSE [w EXCEPT !.exists[targetUuid] = FALSE,
                   !.items[targetUuid] = <<>>,
                   !.attrs[targetUuid] = 0,
                   !.log = Append(@, Deleted(targetUuid))]

\* ------------------------------------------------------- API._removeItems
\* The loop body as it would be if the delete branch reported the requested
\* quantity instead of the quantity the line held.
removeEntryReportsRequested(lines, itemData, acc) ==
    LET item == lines[LineIndex(lines, itemData.id)]
        currentQuantity == item.qty
        hasQuantity == "quantity" \in DOMAIN itemData
        quantityToRemove == IF hasQuantity THEN itemData.quantity ELSE 0
        newQuantity == Max2(0, currentQuantity - quantityToRemove)
    IN IF hasQuantity /\ newQuantity >= 1
       THEN [acc EXCEPT
               !.itemsToUpdate = Append(@, [id |-> item.id, qty |-> newQuantity]),
               !.itemsRemoved = Append(@, [item |-> [item EXCEPT !.qty = quantityToRemove],
                                           quantity |-> quantityToRemove,
                                           deleted |-> FALSE])]
       ELSE [acc EXCEPT
               !.itemsToDelete = Append(@, item.id),
               !.itemsRemoved = Append(@, [item |-> [item EXCEPT !.qty = quantityToRemove],
                                           quantity |-> quantityToRemove,
                                           deleted |-> TRUE])]

\* One pass of the for-loop of _removeItems over the request's entries, every
\* entry read against the same, not yet written, collection.  An entry without
\* a quantity makes newQuantity NaN, and NaN >= 1 is false.
removeEntry(lines, itemData, acc) ==
    LET item == lines[LineIndex(lines, itemData.id)]
        currentQuantity == item.qty
        hasQuantity == "quantity" \in DOMAIN itemData
        quantityToRemove == IF hasQuantity THEN itemData.quantity ELSE 0
        newQuantity == Max2(0, currentQuantity - quantityToRemove)
    IN IF hasQuantity /\ newQuantity >= 1
       THEN [acc EXCEPT
               !.itemsToUpdate = Append(@, [id |-> item.id, qty |-> newQuantity]),
               !.itemsRemoved = Append(@, [item |-> [item EXCEPT !.qty = quantityToRemove],
                                           quantity |-> quantityToRemove,
                                           deleted |-> FALSE])]
       ELSE [acc EXCEPT
               !.itemsToDelete = Append(@, item.id),
               !.itemsRemoved = Append(@, [item |-> [item EXCEPT !.qty = currentQuantity],
                                           quantity |-> currentQuantity,
                                           deleted |-> TRUE])]

RECURSIVE removeLoop(_, _, _)
removeLoop(lines, its, acc) ==
    IF its = <<>> THEN acc
    ELSE removeLoop(lines, Tail(its), removeEntry(lines, Head(its), acc))

\* The whole handler on the world w = [items, attrs, exists, nextId, log, failed].
\* It throws, before any write, when the target does not resolve or an id is
\* not in the collection (items.get(id) is undefined).
_removeItems(w, targetUuid, its, isTransfer) ==
    IF w.failed THEN [w |-> w, res |-> <<>>]
    ELSE IF \/ ~w.exists[targetUuid]
            \/ \E i \in 1..Len(its) : LineIndex(w.items[targetUuid], its[i].id) = 0
    THEN [w |-> [w EXCEPT !.failed = TRUE], res |-> <<>>]
    ELSE
    LET lines == w.items[targetUuid]
        r == removeLoop(lines, its,
                [itemsToUpdate |-> <<>>, itemsToDelete |-> <<>>, itemsRemoved |-> <<>>])
        stored == deleteEmbeddedDocuments(
                      updateEmbeddedDocuments(lines, r.itemsToUpdate), r.itemsToDelete)
        w1 == [w EXCEPT !.items[targetUuid] = stored,
                        !.log = @ \o << Write(targetUuid),
                                        Broadcast("CALL_HOOK", "ITEM.REMOVE") >>]
    IN IF isTransfer THEN [w |-> w1, res |-> r.itemsRemoved]
       ELSE
       LET w2 == _executeItemPileMacro(w1, targetUuid, "removeItems")
           shouldBeDeleted == ~w2.failed /\ _checkItemPileShouldBeDeleted(w2, targetUuid)
           w3 == IF w2.failed THEN w2
                 ELSE rerenderItemPileInventoryApplication(
                          [w2 EXCEPT !.log = Append(@, Checked(targetUuid))], targetUuid)
           w4 == IF shouldBeDeleted THEN _deleteItemPile(w3, targetUuid) ELSE w3
       IN [w |-> w4, res |-> r.itemsRemoved]

\* ---------------------------------------------------------- API._addItems
\* The loop body as it would be if a found line's quantity were overwritten by
\* the incoming quantity instead of increased by it.
addEntryOverwrites(targetActorItems, itemData, acc) ==
    LET item == itemData.item
        found == getSimilarItem(targetActorItems, item.id, item.name, item.type)
        incomingQuantity == IF "quantity" \in DOMAIN itemData THEN itemData.quantity ELSE 1
    IN IF found # 0
       THEN LET foundItem == targetActorItems[found]
                newQuantity == incomingQuantity
            IN [acc EXCEPT
                  !.itemsToUpdate = Append(@, [id |-> foundItem.id, qty |-> newQuantity]),
                  !.itemsAdded = Append(@, [item |-> [foundItem EXCEPT !.qty = newQuantity],
                                            quantity |-> incomingQuantity])]
       ELSE [acc EXCEPT
               !.itemsToCreate = Append(@, [item EXCEPT !.qty = incomingQuantity])]

\* One pass of the for-loop of _addItems: every entry is matched against the
\* collection as it was read at the start (targetActorItems).
addEntry(targetActorItems, itemData, acc) ==
    LET item == itemData.item
        found == getSimilarItem(targetActorItems, item.id, item.name, item.type)
        incomingQuantity == IF "quantity" \in DOMAIN itemData THEN itemData.quantity ELSE 1
    IN IF found # 0
       THEN LET foundItem == targetActorItems[found]
                newQuantity == foundItem.qty + incomingQuantity
            IN [acc EXCEPT
                  !.itemsToUpdate = Append(@, [id |-> foundItem.id, qty |-> newQuantity]),
                  !.itemsAdded = Append(@, [item |-> [foundItem EXCEPT !.qty = newQuantity],
                                            quantity |-> incomingQuantity])]
       ELSE [acc EXCEPT
               !.itemsToCreate = Append(@, [item EXCEPT !.qty = incomingQuantity])]

RECURSIVE addLoop(_, _, _)
addLoop(targetActorItems, its, acc) ==
    IF its = <<>> THEN acc
    ELSE addLoop(targetActorItems, Tail(its), addEntry(targetActorItems, Head(its), acc))

_addItems(w, targetUuid, its, isTransfer) ==
    IF w.failed THEN [w |-> w, res |-> <<>>]
    ELSE IF ~w.exists[targetUuid]
    THEN [w |-> [w EXCEPT !.failed = TRUE], res |-> <<>>]
    ELSE
    LET targetActorItems == w.items[targetUuid]
        r == addLoop(targetActorItems, its,
                [itemsToCreate |-> <<>>, itemsToUpdate |-> <<>>, itemsAdded |-> <<>>])
        itemsCreated == createEmbeddedDocuments(w.nextId, r.itemsToCreate)
        stored == updateEmbeddedDocuments(targetActorItems \o itemsCreated, r.itemsToUpdate)
        itemsAdded == r.itemsAdded \o
            [ i \in 1..Len(itemsCreated) |->
                [item |-> itemsCreated[i], quantity |-> itemsCreated[i].qty] ]
        w1 == [w EXCEPT !.items[targetUuid] = stored,
                        !.nextId = @ + Len(itemsCreated),
                        !.log = @ \o << Write(targetUuid),
                                        Broadcast("CALL_HOOK", "ITEM.ADD") >>]
    IN IF isTransfer THEN [w |-> w1, res |-> itemsAdded]
       ELSE
       LET w2 == _executeItemPileMacro(w1, targetUuid, "addItems")
           w3 == IF w2.failed THEN w2
                 ELSE rerenderItemPileInventoryApplication(w2, targetUuid)
       IN [w |-> w3, res |-> itemsAdded]

\* The tail shared by the transfer handlers: macros on both sides, the
\* emptiness check of the source, the re-renders, the deletion.
afterTransfer(w, sourceUuid, targetUuid, action) ==
    LET w1 == _executeItemPileMacro(w, sourceUuid, action)
        w2 == _executeItemPileMacro(w1, targetUuid, action)
        shouldBeDeleted == ~w2.failed /\ _checkItemPileShouldBeDeleted(w2, sourceUuid)
        w3 == IF w2.failed THEN w2
              ELSE rerenderItemPileInventoryApplication(
                       rerenderItemPileInventoryApplication(
                           [w2 EXCEPT !.log = Append(@, Checked(sourceUuid))], sourceUuid),
                       targetUuid)
    IN IF shouldBeDeleted THEN _deleteItemPile(w3, sourceUuid) ELSE w3

\* ----------------------------------------------------- API._transferItems
\* _transferItems as it would be if the removal sub-step were not told that it
\* is part of a transfer.
_transferItemsRemovalCleansUp(w, sourceUuid, targetUuid, its, isEverything) ==
    LET removed == _removeItems(w, sourceUuid, its, FALSE)
        added == _addItems(removed.w, targetUuid, removed.res, TRUE)
    IN IF added.w.failed \/ isEverything THEN added
       ELSE [w |-> afterTransfer(
                      [added.w EXCEPT !.log = Append(@, Broadcast("CALL_HOOK", "ITEM.TRANSFER"))],
                      sourceUuid, targetUuid, "transferItems"),
             res |-> added.res]

\* API._transferItems
_transferItems(w, sourceUuid, targetUuid, its, isEverything) ==
    LET removed == _removeItems(w, sourceUuid, its, TRUE)
        added == _addItems(removed.w, targetUuid, removed.res, TRUE)
    IN IF added.w.failed \/ isEverything THEN added
       ELSE [w |-> afterTransfer(
                      [added.w EXCEPT !.log = Append(@, Broadcast("CALL_HOOK", "ITEM.TRANSFER"))],
                      sourceUuid, targetUuid, "transferItems"),
             res |-> added.res]

\* -------------------------------------------------- API._transferAllItems
\* The entries are the source's lines themselves (item.toObject()): they
\* carry an id but no top-level quantity.  The broadcast after the transfer
\* names the handler TRANSFER_ALL_ITEMS, with the hook name as first argument.
_transferAllItems(w, sourceUuid, targetUuid, itemTypeFilters, isEverything) ==
    IF w.failed THEN [w |-> w, res |-> <<>>]
    ELSE IF ~w.exists[sourceUuid]
    THEN [w |-> [w EXCEPT !.failed = TRUE], res |-> <<>>]
    ELSE
    LET visible == getDocumentItems(w.items[sourceUuid], itemTypeFilters)
        itemsToRemove == [ i \in 1..Len(visible) |->
                             [id |-> visible[i].id, name |-> visible[i].name,
                              type |-> visible[i].type, qty |-> visible[i].qty] ]
        removed == _removeItems(w, sourceUuid, itemsToRemove, TRUE)
        added == _addItems(removed.w, targetUuid, removed.res, TRUE)
    IN IF added.w.failed \/ isEverything THEN added
       ELSE [w |-> afterTransfer(
                      [added.w EXCEPT !.log =
                          Append(@, Broadcast("TRANSFER_ALL_ITEMS", "ITEM.TRANSFER_ALL"))],
                      sourceUuid, targetUuid, "transferAllItems"),
             res |-> added.res]

\* ------------------------------------------------------ the attributes
\* Every actor has one attribute pool, at the path Attribute; w.attrs[p] is its
\* value on p's actor.  An attributes object is [isArray |-> FALSE, entries |->
\* the sequence of its entries [attribute, quantity]]; an attributes array is
\* [isArray |-> TRUE, entries |-> the sequence of its paths, each [attribute]].
Attribute == "currency"

AttributesObject(entries) == [isArray |-> FALSE, entries |-> entries]
AttributesArray(paths) == [isArray |-> TRUE, entries |-> paths]

\* Actor.update(updates): the attribute takes the value of its key in updates.
updateActor(currentQuantity, updates) ==
    IF updates = <<>> THEN currentQuantity ELSE updates[Len(updates)].quantity

\* The loop body of _removeAttributes as it would be if it always reported the
\* requested quantity.
removeAttributeReportsRequested(currentQuantity, entry, acc) ==
    LET quantityToRemove == entry.quantity
        newQuantity == Max2(0, currentQuantity - quantityToRemove)
    IN [acc EXCEPT
          !.updates = Append(@, [attribute |-> entry.attribute, quantity |-> newQuantity]),
          !.attributesRemoved =
              Append(@, [attribute |-> entry.attribute, quantity |-> quantityToRemove])]

\* API._removeAttributes: the loop body.
removeAttribute(currentQuantity, entry, acc) ==
    LET quantityToRemove == entry.quantity
        newQuantity == Max2(0, currentQuantity - quantityToRemove)
    IN [acc EXCEPT
          !.updates = Append(@, [attribute |-> entry.attribute, quantity |-> newQuantity]),
          !.attributesRemoved =
              Append(@, [attribute |-> entry.attribute,
                         quantity |-> IF newQuantity # 0 THEN quantityToRemove
                                      ELSE currentQuantity])]

RECURSIVE removeAttributesLoop(_, _, _)
removeAttributesLoop(currentQuantity, entries, acc) ==
    IF entries = <<>> THEN acc
    ELSE removeAttributesLoop(currentQuantity, Tail(entries),
                              removeAttribute(currentQuantity, Head(entries), acc))

\* API._removeAttributes.  An array names the attributes to zero out: each
\* becomes an entry with the attribute's current value.
_removeAttributes(w, targetUuid, attributes, isTransfer) ==
    IF w.failed THEN [w |-> w, res |-> AttributesObject(<<>>)]
    ELSE IF ~w.exists[targetUuid]
    THEN [w |-> [w EXCEPT !.failed = TRUE], res |-> AttributesObject(<<>>)]
    ELSE
    LET currentQuantity == w.attrs[targetUuid]
        entries == IF attributes.isArray
                   THEN [ i \in 1..Len(attributes.entries) |->
                            [attribute |-> attributes.entries[i].attribute,
                             quantity |-> currentQuantity] ]
                   ELSE attributes.entries
        r == removeAttributesLoop(currentQuantity, entries,
                                  [updates |-> <<>>, attributesRemoved |-> <<>>])
        attributesRemoved == AttributesObject(r.attributesRemoved)
        w1 == [w EXCEPT !.attrs[targetUuid] = updateActor(currentQuantity, r.updates),
                        !.log = @ \o << Write(targetUuid),
                                        Broadcast("CALL_HOOK", "ATTRIBUTE.REMOVE") >>]
    IN IF isTransfer THEN [w |-> w1, res |-> attributesRemoved]
       ELSE
       LET w2 == _executeItemPileMacro(w1, targetUuid, "removeAttributes")
           shouldBeDeleted == ~w2.failed /\ _checkItemPileShouldBeDeleted(w2, targetUuid)
           w3 == IF w2.failed THEN w2
                 ELSE rerenderItemPileInventoryApplication(
                          [w2 EXCEPT !.log = Append(@, Checked(targetUuid))], targetUuid)
           w4 == IF shouldBeDeleted THEN _deleteItemPile(w3, targetUuid) ELSE w3
       IN [w |-> w4, res |-> attributesRemoved]

\* The loop body of _addAttributes as it would be if it stored the quantity to
\* add in place of the sum.
addAttributeOverwrites(currentQuantity, entry, acc) ==
    LET quantityToAdd == entry.quantity
    IN [acc EXCEPT
          !.updates = Append(@, [attribute |-> entry.attribute,
                                 quantity |-> quantityToAdd]),
          !.attributesAdded = Append(@, [attribute |-> entry.attribute,
                                         quantity |-> quantityToAdd])]

\* API._addAttributes: the loop body.  The record reports the new value.
addAttribute(currentQuantity, entry, acc) ==
    LET quantityToAdd == entry.quantity
    IN [acc EXCEPT
          !.updates = Append(@, [attribute |-> entry.attribute,
                                 quantity |-> currentQuantity + quantityToAdd]),
          !.attributesAdded = Append(@, [attribute |-> entry.attribute,
                                         quantity |-> currentQuantity + quantityToAdd])]

RECURSIVE addAttributesLoop(_, _, _)
addAttributesLoop(currentQuantity, entries, acc) ==
    IF entries = <<>> THEN acc
    ELSE addAttributesLoop(currentQuantity, Tail(entries),
                           addAttribute(currentQuantity, Head(entries), acc))

\* API._addAttributes.  The macro and the re-render are under `if (isTransfer)`.
_addAttributes(w, targetUuid, attributes, isTransfer) ==
    IF w.failed THEN [w |-> w, res |-> AttributesObject(<<>>)]
    ELSE IF ~w.exists[targetUuid]
    THEN [w |-> [w EXCEPT !.failed = TRUE], res |-> AttributesObject(<<>>)]
    ELSE
    LET currentQuantity == w.attrs[targetUuid]
        r == addAttributesLoop(currentQuantity, attributes.entries,
                               [updates |-> <<>>, attributesAdded |-> <<>>])
        attributesAdded == AttributesObject(r.attributesAdded)
        w1 == [w EXCEPT !.attrs[targetUuid] = updateActor(currentQuantity, r.updates),
                        !.log = @ \o << Write(targetUuid),
                                        Broadcast("CALL_HOOK", "ATTRIBUTE.ADD") >>]
    IN IF ~isTransfer THEN [w |-> w1, res |-> attributesAdded]
       ELSE
       LET w2 == _executeItemPileMacro(w1, targetUuid, "addAttributes")
           w3 == IF w2.failed THEN w2
                 ELSE rerenderItemPileInventoryApplication(w2, targetUuid)
       IN [w |-> w3, res |-> attributesAdded]

\* API._transferAttributes
_transferAttributes(w, sourceUuid, targetUuid, attributes, isEverything) ==
    Once(_removeAttributes(w, sourceUuid, attributes, TRUE), LAMBDA removed :
    Once(_addAttributes(removed.w, targetUuid, removed.res, TRUE), LAMBDA added :
       IF added.w.failed \/ isEverything THEN [w |-> added.w, res |-> removed.res]
       ELSE [w |-> afterTransfer(
                      [added.w EXCEPT !.log =
                          Append(@, Broadcast("CALL_HOOK", "ATTRIBUTE.TRANSFER"))],
                      sourceUuid, targetUuid, "transferAttributes"),
             res |-> removed.res]))

\* The filter of _transferAllAttributes as it would be without the test for a
\* positive value on the source.
attributesToTransferAny(w, sourceUuid, targetUuid) ==
    AttributesArray(<< [attribute |-> Attribute] >>)

\* The filter of _transferAllAttributes: the paths of the attributes the source
\* has with a value > 0 and the target has too.
attributesToTransfer(w, sourceUuid, targetUuid) ==
    AttributesArray(IF w.attrs[sourceUuid] > 0 /\ w.exists[targetUuid]
                    THEN << [attribute |-> Attribute] >> ELSE <<>>)

\* API._transferAllAttributes: the attributes with a positive value on the
\* source that the target has too.  The TRANSFER_ALL broadcast is made outside
\* `if (!isEverything)`; the re-render is of the source alone.
_transferAllAttributes(w, sourceUuid, targetUuid, isEverything) ==
    IF w.failed THEN [w |-> w, res |-> AttributesObject(<<>>)]
    ELSE IF \/ ~w.exists[sourceUuid]
            \/ (w.attrs[sourceUuid] > 0 /\ ~w.exists[targetUuid])
    THEN [w |-> [w EXCEPT !.failed = TRUE], res |-> AttributesObject(<<>>)]
    ELSE
    Once(_removeAttributes(w, sourceUuid, attributesToTransfer(w, sourceUuid, targetUuid),
                           TRUE), LAMBDA removed :
    Once(_addAttributes(removed.w, targetUuid, removed.res, TRUE), LAMBDA added :
       IF added.w.failed THEN added
       ELSE
       LET w1 == [added.w EXCEPT !.log =
                     Append(@, Broadcast("CALL_HOOK", "ATTRIBUTE.TRANSFER_ALL"))]
       IN IF isEverything THEN [w |-> w1, res |-> added.res]
          ELSE
          Once(_executeItemPileMacro(
                   _executeItemPileMacro(w1, sourceUuid, "transferAllAttributes"),
                   targetUuid, "transferAllAttributes"), LAMBDA w3 :
             LET shouldBeDeleted ==
                     ~w3.failed /\ _checkItemPileShouldBeDeleted(w3, sourceUuid)
                 w4 == IF w3.failed THEN w3
                       ELSE rerenderItemPileInventoryApplication(
                                [w3 EXCEPT !.log = Append(@, Checked(sourceUuid))],
                                sourceUuid)
                 w5 == IF shouldBeDeleted THEN _deleteItemPile(w4, sourceUuid) ELSE w4
             IN [w |-> w5, res |-> added.res])))

\* API._transferEverything
_transferEverything(w, sourceUuid, targetUuid, itemTypeFilters) ==
    Once(_transferAllItems(w, sourceUuid, targetUuid, itemTypeFilters, TRUE),
         LAMBDA itemsTransferred :
    Once(_transferAllAttributes(itemsTransferred.w, sourceUuid, targetUuid, TRUE),
         LAMBDA attributesTransferred :
       LET res == [itemsTransferred |-> itemsTransferred.res,
                   attributesTransferred |-> attributesTransferred.res]
       IN IF attributesTransferred.w.failed
          THEN [w |-> attributesTransferred.w, res |-> res]
          ELSE Once([attributesTransferred.w EXCEPT !.log =
                        Append(@, Broadcast("CALL_HOOK", "TRANSFER_EVERYTHING"))],
                    LAMBDA w1 :
                       [w |-> afterTransfer(w1, sourceUuid, targetUuid, "transferEverything"),
                        res |-> res])))

\* ------------------------------------------- the public entry points (client)
\* What each entry point sends to the executor for the caller's items list.
\* An entry is an id alone (a string or {_id}), {_id, quantity}, or
\* {item, quantity?}.

EntryId(itemData) == IF "item" \in DOMAIN itemData THEN itemData.item.id ELSE itemData.id

\* API.addItems: quantity ?? getProperty(item.data, ITEM_QUANTITY_ATTRIBUTE);
\* item.data holds the system data, so the nested path resolves to undefined.
addItemsMap(its) ==
    [ i \in 1..Len(its) |->
        IF "quantity" \in DOMAIN its[i]
        THEN [item |-> its[i].item, quantity |-> its[i].quantity]
        ELSE [item |-> its[i].item] ]

\* API.removeItems: quantity ?? the line's current quantity.
removeItemsMap(targetActorItems, its) ==
    [ i \in 1..Len(its) |->
        [id |-> EntryId(its[i]),
         quantity |-> IF "quantity" \in DOMAIN its[i] THEN its[i].quantity
                      ELSE targetActorItems[LineIndex(targetActorItems, EntryId(its[i]))].qty] ]

\* API.transferItems: Math.max((quantity ?? 0) ?? <the line's quantity>).
transferItemsMap(sourceActorItems, its) ==
    [ i \in 1..Len(its) |->
        [id |-> EntryId(its[i]),
         quantity |-> IF "quantity" \in DOMAIN its[i] THEN its[i].quantity ELSE 0] ]

\* The entry points throw when an entry names no line the caller can see.
EntriesFound(actorItems, its) ==
    \A i \in 1..Len(its) : LineIndex(actorItems, EntryId(its[i])) # 0

\* -------------------------------------------------------------- the inputs
\* A request is one entry with any quantity in 0..MaxQty or none, or a list of
\* up to MaxEntries entries with quantities in 1..MaxQty.
ReqQuantities == 0..MaxQty
ListQuantities == 1..MaxQty

\* Items a caller may hand to addItems: items of the world, whose id is no
\* line's id.
WorldItems == { [id |-> 0, name |-> k.name, type |-> k.type, qty |-> 1] : k \in Kinds }

AddRequests ==
    { << [item |-> it] >> : it \in WorldItems } \cup
    { << [item |-> it, quantity |-> q] >> : it \in WorldItems, q \in ReqQuantities } \cup
    SeqsUpTo({ [item |-> it, quantity |-> q] : it \in WorldItems, q \in ListQuantities },
             MaxEntries)

\* Requests naming lines of p by id.
IdRequests(p) ==
    LET ids == { l.id : l \in Range(getDocumentItems(items[p], [given |-> FALSE])) }
    IN { << [id |-> i] >> : i \in ids } \cup
       { << [id |-> i, quantity |-> q] >> : i \in ids, q \in ReqQuantities } \cup
       SeqsUpTo({ [id |-> i, quantity |-> q] : i \in ids, q \in ListQuantities }, MaxEntries)

FilterChoices == { [given |-> FALSE], [given |-> TRUE, types |-> {"treasure"}] }

\* The record of a request: the caller's argument (args), what was sent to the
\* executor for it (items), the pre-operation hook's result,
\* what came back, the store before it (pre, preAttrs, preExists), the effects.
NoOp == [op |-> "none", source |-> "", target |-> "", args |-> <<>>, items |-> <<>>,
         res |-> <<>>,
         status |-> "none", hookResult |-> TRUE,
         pre |-> <<>>, preAttrs |-> <<>>, preExists |-> <<>>, log |-> <<>>]

World == [items |-> items, attrs |-> attrs, exists |-> exists, nextId |-> nextId,
          log |-> <<>>, failed |-> FALSE]

\* `if (hookResult === false) return;` as it would be if the result of the
\* pre-operation hook were not looked at.
hookVetoesNever(hookResult) == FALSE

\* `if (hookResult === false) return;` after the pre-operation hook.
hookVetoes(hookResult) == hookResult = FALSE

\* The store takes the handler's writes; a handler that threw keeps the
\* writes it had made before it threw.
Settle(hookResult, op, source, target, args, sent, out) ==
    /\ items' = out.w.items
    /\ attrs' = out.w.attrs
    /\ exists' = out.w.exists
    /\ nextId' = out.w.nextId
    /\ nOps' = nOps + 1
    /\ prevOp' = lastOp
    /\ lastOp' = [op |-> op, source |-> source, target |-> target,
                  args |-> args, items |-> sent,
                  res |-> out.res,
                  status |-> IF out.w.failed THEN "failed" ELSE "ok",
                  hookResult |-> hookResult,
                  pre |-> items, preAttrs |-> attrs, preExists |-> exists,
                  log |-> out.w.log]
    /\ UNCHANGED <<cfg, deleteEmptyPiles, isGMConnected, dropVars>>
    /\ UNCHANGED pileVars

\* itemPileSocket.executeAsGM has nobody to hand the request to.
executeAsGMRejects == ~isGMConnected

\* itemPileSocket.executeAsGM with no GM connected: the call is rejected, no
\* handler runs anywhere.
Rejected(op, source, target) ==
    /\ nOps' = nOps + 1
    /\ prevOp' = lastOp
    /\ lastOp' = [NoOp EXCEPT !.op = op, !.source = source, !.target = target,
                              !.status = "rejected",
                              !.pre = items, !.preAttrs = attrs, !.preExists = exists]
    /\ UNCHANGED <<items, exists, nextId, cfg, attrs, deleteEmptyPiles, isGMConnected, dropVars>>
    /\ UNCHANGED pileVars

\* The entry point's `return itemPileSocket.executeAsGM(...)` as it would be if
\* the handler were run whether or not a GM is there to run it.
CommitWithoutExecutor(hookResult, op, source, target, args, sent, out) ==
    Settle(hookResult, op, source, target, args, sent, out)

\* `return itemPileSocket.executeAsGM(HANDLER, ...)`: the entry point hands the
\* request to the executor and returns what comes of it.
Commit(hookResult, op, source, target, args, sent, out) ==
    IF executeAsGMRejects THEN Rejected(op, source, target)
    ELSE Settle(hookResult, op, source, target, args, sent, out)

\* A pre-operation hook returned false: the entry point returns undefined,
\* nothing is dispatched.
Veto(op, source, target) ==
    /\ nOps' = nOps + 1
    /\ prevOp' = lastOp
    /\ lastOp' = [NoOp EXCEPT !.op = op, !.source = source, !.target = target,
                              !.status = "vetoed", !.hookResult = FALSE,
                              !.pre = items, !.preAttrs = attrs, !.preExists = exists]
    /\ UNCHANGED <<items, exists, nextId, cfg, attrs, deleteEmptyPiles, isGMConnected, dropVars>>
    /\ UNCHANGED pileVars

\* ------------------------------------------------------------- the actions
\* API.addItems -> ADD_ITEMS -> API._addItems
addItems ==
    /\ nOps < MaxOps
    /\ \E target \in Piles, hookResult \in BOOLEAN :
         \/ /\ hookVetoes(hookResult)
            /\ Veto("addItems", "", target)
         \/ /\ ~hookVetoes(hookResult)
            /\ \E its \in AddRequests :
                 Commit(hookResult, "addItems", "", target, its, addItemsMap(its),
                        _addItems(World, target, addItemsMap(its), FALSE))

\* API.removeItems -> REMOVE_ITEMS -> API._removeItems
removeItems ==
    /\ nOps < MaxOps
    /\ \E target \in Piles, hookResult \in BOOLEAN :
         \/ /\ hookVetoes(hookResult)
            /\ Veto("removeItems", "", target)
         \/ /\ ~hookVetoes(hookResult)
            /\ \E its \in IdRequests(target) :
                 LET targetActorItems == getDocumentItems(items[target], [given |-> FALSE])
                 IN /\ EntriesFound(targetActorItems, its)
                    /\ Commit(hookResult, "removeItems", "", target, its,
                              removeItemsMap(targetActorItems, its),
                              _removeItems(World, target,
                                           removeItemsMap(targetActorItems, its), FALSE))

\* API.transferItems -> TRANSFER_ITEMS -> API._transferItems.  The caller may
\* also pass the records the previous transfer returned.
transferItems ==
    /\ nOps < MaxOps
    /\ \E source \in Piles, target \in Piles, hookResult \in BOOLEAN :
         /\ source # target
         /\ \/ /\ hookVetoes(hookResult)
               /\ Veto("transferItems", source, target)
            \/ /\ ~hookVetoes(hookResult)
               /\ \E its \in IdRequests(source) \cup
                             (IF lastOp.op = "transferItems" /\ lastOp.res # <<>>
                              THEN {lastOp.res} ELSE {}) :
                    LET sourceActorItems == getDocumentItems(items[source], [given |-> FALSE])
                    IN /\ EntriesFound(sourceActorItems, its)
                       /\ Commit(hookResult, "transferItems", source, target, its,
                                 transferItemsMap(sourceActorItems, its),
                                 _transferItems(World, source, target,
                                                transferItemsMap(sourceActorItems, its), FALSE))

\* API.transferAllItems -> TRANSFER_ALL_ITEMS -> API._transferAllItems
transferAllItems ==
    /\ nOps < MaxOps
    /\ \E source \in Piles, target \in Piles, hookResult \in BOOLEAN :
         /\ source # target
         /\ \/ /\ hookVetoes(hookResult)
               /\ Veto("transferAllItems", source, target)
            \/ /\ ~hookVetoes(hookResult)
               /\ \E itemTypeFilters \in FilterChoices :
                    Commit(hookResult, "transferAllItems", source, target, itemTypeFilters, <<>>,
                           _transferAllItems(World, source, target, itemTypeFilters, FALSE))

\* ------------------------------------------- the attribute entry points
\* lib.is_real_number: a finite number.
is_real_number(quantity) == quantity \in Int

\* The entry points throw for an entry when
\* `!lib.is_real_number(quantity) && quantity > 0`; every named attribute is
\* present on both actors.
attributesAccepted(attributes) ==
    IF attributes.isArray THEN TRUE
    ELSE \A i \in 1..Len(attributes.entries) :
             ~(~is_real_number(attributes.entries[i].quantity)
               /\ attributes.entries[i].quantity > 0)

\* The quantities a caller may name, and the attributes arguments made of them.
AttributeQuantities == (0 - 1)..MaxQty

AttributeObjects ==
    { AttributesObject(<<>>) } \cup
    { AttributesObject(<< [attribute |-> Attribute, quantity |-> q] >>) :
        q \in AttributeQuantities }

AttributeArrays == { AttributesArray(<<>>), AttributesArray(<< [attribute |-> Attribute] >>) }

\* API.addAttributes -> ADD_ATTRIBUTE -> API._addAttributes
addAttributes ==
    /\ nOps < MaxOps
    /\ \E target \in Piles, hookResult \in BOOLEAN :
         \/ /\ hookVetoes(hookResult)
            /\ Veto("addAttributes", "", target)
         \/ /\ ~hookVetoes(hookResult)
            /\ \E attributes \in AttributeObjects :
                 /\ attributesAccepted(attributes)
                 /\ Commit(hookResult, "addAttributes", "", target, attributes, attributes,
                           _addAttributes(World, target, attributes, FALSE))

\* API.removeAttributes -> REMOVE_ATTRIBUTES -> API._removeAttributes
removeAttributes ==
    /\ nOps < MaxOps
    /\ \E target \in Piles, hookResult \in BOOLEAN :
         \/ /\ hookVetoes(hookResult)
            /\ Veto("removeAttributes", "", target)
         \/ /\ ~hookVetoes(hookResult)
            /\ \E attributes \in AttributeObjects \cup AttributeArrays :
                 /\ attributesAccepted(attributes)
                 /\ Commit(hookResult, "removeAttributes", "", target, attributes, attributes,
                           _removeAttributes(World, target, attributes, FALSE))

\* API.transferAttributes -> TRANSFER_ATTRIBUTES -> API._transferAttributes
transferAttributes ==
    /\ nOps < MaxOps
    /\ \E source \in Piles, target \in Piles, hookResult \in BOOLEAN :
         /\ source # target
         /\ \/ /\ hookVetoes(hookResult)
               /\ Veto("transferAttributes", source, target)
            \/ /\ ~hookVetoes(hookResult)
               /\ \E attributes \in AttributeObjects \cup AttributeArrays :
                    /\ attributesAccepted(attributes)
                    /\ Commit(hookResult, "transferAttributes", source, target, attributes,
                              attributes,
                              _transferAttributes(World, source, target, attributes, FALSE))

\* API.transferAllAttributes -> TRANSFER_ALL_ATTRIBUTES -> API._transferAllAttributes
transferAllAttributes ==
    /\ nOps < MaxOps
    /\ \E source \in Piles, target \in Piles, hookResult \in BOOLEAN :
         /\ source # target
         /\ \/ /\ hookVetoes(hookResult)
               /\ Veto("transferAllAttributes", source, target)
            \/ /\ ~hookVetoes(hookResult)
               /\ Commit(hookResult, "transferAllAttributes", source, target, <<>>, <<>>,
                         _transferAllAttributes(World, source, target, FALSE))

\* API.transferEverything -> TRANSFER_EVERYTHING -> API._transferEverything
transferEverything ==
    /\ nOps < MaxOps
    /\ \E source \in Piles, target \in Piles, hookResult \in BOOLEAN :
         /\ source # target
         /\ \/ /\ hookVetoes(hookResult)
               /\ Veto("transferEverything", source, target)
            \/ /\ ~hookVetoes(hookResult)
               /\ \E itemTypeFilters \in FilterChoices :
                    Commit(hookResult, "transferEverything", source, target, itemTypeFilters,
                           <<>>,
                           _transferEverything(World, source, target, itemTypeFilters))

\* The validation of deleteItemPile as it would be if it let every target
\* through.
deleteItemPileThrowsNever(w, target) == FALSE

\* The validation of API.deleteItemPile.  For a target that is not a valid
\* pile the code reads `targetUuid` before its `const` declaration: a
\* ReferenceError natively, the custom error where the build turns const into
\* var; the call is rejected either way.  A valid target must have a UUID that
\* names a Token.
deleteItemPileThrows(w, target) ==
    \/ ~isValidItemPile(w, target)
    \/ ~cfg[target].isToken

\* API.deleteItemPile -> DELETE_PILE -> API._deleteItemPile
deleteItemPile ==
    /\ nOps < MaxOps
    /\ \E target \in Piles, hookResult \in BOOLEAN :
         IF deleteItemPileThrows(World, target)
         THEN /\ hookResult
              /\ Settle(hookResult, "deleteItemPile", "", target, <<>>, <<>>,
                        [w |-> [World EXCEPT !.failed = TRUE], res |-> <<>>])
         ELSE \/ /\ hookVetoes(hookResult)
                 /\ Veto("deleteItemPile", "", target)
              \/ /\ ~hookVetoes(hookResult)
                 /\ Commit(hookResult, "deleteItemPile", "", target, <<>>, <<>>,
                           [w |-> _deleteItemPile(World, target), res |-> <<>>])

\* ============================================== the container state machine
\* Document A is the container.  Its pile data are the record
\* [enabled, isContainer, closed, locked]; lib.getItemPileData hands the caller
\* a copy of them, here the client's view.  The three sounds are configured.
Container == "A"

\* A hook listener may return false.  One record per call: TRUE where the hook
\* did not return false; at most one hook vetoes in a call.
HookNames == {"PRE_UNLOCK", "PRE_OPEN", "PRE_CLOSE", "PRE_LOCK", "PRE_UPDATE"}
HookChoices ==
    { [h \in HookNames |-> TRUE] } \cup
    { [h \in HookNames |-> h # v] : v \in HookNames }

\* newData and diff are objects with some of the keys: sets of <<key, value>>.
AsObject(data) == { <<k, data[k]>> : k \in DOMAIN data }

NoData == [enabled |-> FALSE, isContainer |-> FALSE, closed |-> FALSE, locked |-> FALSE]

\* The circumstances of a click, kept with its request; NoClick for a request
\* that is no click.
NoClick == [isGM |-> FALSE, gmConnected |-> TRUE, finite |-> FALSE,
            ownedNear |-> FALSE, candidateNear |-> FALSE]

\* What a call comes to: "refused" (return false), "vetoed" (a hook returned
\* false) or "sent" (UPDATE_PILE dispatched to the executor with newData); the
\* sounds it played and the hooks it called on the way.
Refused == [status |-> "refused", newData |-> {}, sounds |-> <<>>, called |-> {}]
Vetoed(played, called) ==
    [status |-> "vetoed", newData |-> {}, sounds |-> played, called |-> called]

\* API.updateItemPile
updateItemPile(newData, hooks) ==
    IF ~hooks["PRE_UPDATE"] THEN [status |-> "vetoed", newData |-> {}]
    ELSE IF executeAsGMRejects THEN [status |-> "rejected", newData |-> newData]
    ELSE [status |-> "sent", newData |-> newData]

Dispatch(data, hooks, played, called) ==
    LET u == updateItemPile(AsObject(data), hooks)
    IN [status |-> u.status, newData |-> u.newData, sounds |-> played,
        called |-> called \cup {"PRE_UPDATE"}]

\* openItemPile as it would be if it cleared closed only.
openItemPileKeepsLock(data, hooks) ==
    IF ~data.enabled \/ ~data.isContainer THEN Refused
    ELSE LET wasLocked == data.locked
             wasClosed == data.closed
             d == [data EXCEPT !.closed = FALSE]
             unlocking == IF wasLocked THEN {"PRE_UNLOCK"} ELSE {}
         IN IF wasLocked /\ ~hooks["PRE_UNLOCK"] THEN Vetoed(<<>>, unlocking)
            ELSE IF ~hooks["PRE_OPEN"] THEN Vetoed(<<>>, unlocking \cup {"PRE_OPEN"})
            ELSE Dispatch(d, hooks, IF wasClosed THEN <<"openSound">> ELSE <<>>,
                          unlocking \cup {"PRE_OPEN"})

\* API.openItemPile
openItemPile(data, hooks) ==
    IF ~data.enabled \/ ~data.isContainer THEN Refused
    ELSE LET wasLocked == data.locked
             wasClosed == data.closed
             d == [data EXCEPT !.closed = FALSE, !.locked = FALSE]
             unlocking == IF wasLocked THEN {"PRE_UNLOCK"} ELSE {}
         IN IF wasLocked /\ ~hooks["PRE_UNLOCK"] THEN Vetoed(<<>>, unlocking)
            ELSE IF ~hooks["PRE_OPEN"] THEN Vetoed(<<>>, unlocking \cup {"PRE_OPEN"})
            ELSE Dispatch(d, hooks, IF wasClosed THEN <<"openSound">> ELSE <<>>,
                          unlocking \cup {"PRE_OPEN"})

\* API.closeItemPile
closeItemPile(data, hooks) ==
    IF ~data.enabled \/ ~data.isContainer THEN Refused
    ELSE LET wasClosed == data.closed
             d == [data EXCEPT !.closed = TRUE]
         IN IF ~hooks["PRE_CLOSE"] THEN Vetoed(<<>>, {"PRE_CLOSE"})
            ELSE Dispatch(d, hooks, IF ~wasClosed THEN <<"closeSound">> ELSE <<>>,
                          {"PRE_CLOSE"})

\* toggleItemPileClosed as it would be with its test of data.closed inverted.
toggleItemPileClosedInverted(data, hooks) ==
    IF ~data.enabled \/ ~data.isContainer THEN Refused
    ELSE IF ~data.closed THEN openItemPile(data, hooks)
    ELSE closeItemPile(data, hooks)

\* API.toggleItemPileClosed
toggleItemPileClosed(data, hooks) ==
    IF ~data.enabled \/ ~data.isContainer THEN Refused
    ELSE IF data.closed THEN openItemPile(data, hooks)
    ELSE closeItemPile(data, hooks)

\* lockItemPile as it would be if it set locked only.
lockItemPileLeavesOpen(data, hooks) ==
    IF ~data.enabled \/ ~data.isContainer THEN Refused
    ELSE LET wasClosed == data.closed
             d == [data EXCEPT !.locked = TRUE]
             closing == IF ~wasClosed THEN {"PRE_CLOSE"} ELSE {}
         IN IF ~wasClosed /\ ~hooks["PRE_CLOSE"] THEN Vetoed(<<>>, closing)
            ELSE IF ~hooks["PRE_LOCK"] THEN Vetoed(<<>>, closing \cup {"PRE_LOCK"})
            ELSE Dispatch(d, hooks, IF ~wasClosed THEN <<"closeSound">> ELSE <<>>,
                          closing \cup {"PRE_LOCK"})

\* API.lockItemPile
lockItemPile(data, hooks) ==
    IF ~data.enabled \/ ~data.isContainer THEN Refused
    ELSE LET wasClosed == data.closed
             d == [data EXCEPT !.closed = TRUE, !.locked = TRUE]
             closing == IF ~wasClosed THEN {"PRE_CLOSE"} ELSE {}
         IN IF ~wasClosed /\ ~hooks["PRE_CLOSE"] THEN Vetoed(<<>>, closing)
            ELSE IF ~hooks["PRE_LOCK"] THEN Vetoed(<<>>, closing \cup {"PRE_LOCK"})
            ELSE Dispatch(d, hooks, IF ~wasClosed THEN <<"closeSound">> ELSE <<>>,
                          closing \cup {"PRE_LOCK"})

\* API.unlockItemPile: the result of PRE_UNLOCK is not looked at.
unlockItemPile(data, hooks) ==
    IF ~data.enabled \/ ~data.isContainer THEN Refused
    ELSE Dispatch([data EXCEPT !.locked = FALSE], hooks, <<>>, {"PRE_UNLOCK"})

\* API.toggleItemPileLocked
toggleItemPileLocked(data, hooks) ==
    IF ~data.enabled \/ ~data.isContainer THEN Refused
    ELSE IF data.locked THEN unlockItemPile(data, hooks)
    ELSE lockItemPile(data, hooks)

\* rattleItemPile as it would be without the test of data.locked.
rattleItemPileOnAnyContainer(data) ==
    IF ~data.enabled \/ ~data.isContainer THEN Refused
    ELSE [status |-> "rattled", newData |-> {}, sounds |-> <<"lockedSound">>,
          called |-> {"PRE_RATTLE", "RATTLE"}]

\* API.rattleItemPile: on a locked container it calls PRE_RATTLE (whose result
\* is not looked at), plays the locked sound, has RATTLE called on every
\* participant and returns true; it sends no update.
rattleItemPile(data) ==
    IF ~data.enabled \/ ~data.isContainer \/ ~data.locked THEN Refused
    ELSE [status |-> "rattled", newData |-> {}, sounds |-> <<"lockedSound">>,
          called |-> {"PRE_RATTLE", "RATTLE"}]

\* ------------------------------------------------ API._itemPileClicked
\* The tokens on the canvas other than the pile's, as the click handler sees
\* them: owned by the user or not, controlled (selected) or not, and within
\* the pile's max distance or not (lib.tokens_close_enough).  A user who is not
\* a GM controls only tokens they own; the token of somebody else is one that
\* stands near the pile.
Tokens ==
    { t \in [owner : BOOLEAN, controlled : BOOLEAN, near : BOOLEAN] :
        /\ t.controlled => t.owner
        /\ ~t.owner => t.near }

MaxTokens == 2

TokenSets == { S \in SUBSET Tokens : Cardinality(S) <= MaxTokens }

\* `data.distance ? data.distance : Infinity`: without a finite distance every
\* token is close enough.
closeEnough(t, finite) == t.near \/ ~finite

\* The tokens the handler looks at: the controlled ones if any is controlled,
\* else all placeables.
candidateTokens(tokens) ==
    IF \E t \in tokens : t.controlled THEN { t \in tokens : t.controlled } ELSE tokens

\* validTokens as it would be if the selection were not looked at.
validTokensOfAll(tokens, finite, isGM) ==
    { t \in tokens : (closeEnough(t, finite) \/ isGM) /\ t.owner }

\* validTokens after the two filters.
validTokens(tokens, finite, isGM) ==
    { t \in candidateTokens(tokens) : (closeEnough(t, finite) \/ isGM) /\ t.owner }

\* What a click comes to, besides the outcomes of rattleItemPile and
\* openItemPile: nothing (no valid pile), a warning, or the inventory shown.
Clicked(status) == [status |-> status, newData |-> {}, sounds |-> <<>>, called |-> {}]

\* API._itemPileClicked.  After openItemPile, whatever it came to, the
\* inventory is shown.
_itemPileClicked(data, tokens, finite, isGM, gmConnected, hooks) ==
    IF ~data.enabled THEN Clicked("ignored")
    ELSE IF ~gmConnected THEN Clicked("warnedNoGM")
    ELSE LET valid == validTokens(tokens, finite, isGM)
         IN IF valid = {} /\ ~isGM THEN Clicked("warnedTooFar")
            ELSE IF data.isContainer /\ valid # {}
            THEN IF data.locked /\ ~isGM THEN rattleItemPile(data)
                 ELSE IF data.closed THEN openItemPile(data, hooks)
                 ELSE Clicked("shown")
            ELSE Clicked("shown")

\* foundry.utils.mergeObject(duplicate(oldData), duplicate(newData))
mergeObject(oldData, newData) ==
    [ k \in DOMAIN oldData |->
        IF \E v \in BOOLEAN : <<k, v>> \in newData
        THEN CHOOSE v \in BOOLEAN : <<k, v>> \in newData
        ELSE oldData[k] ]

\* foundry.utils.diffObject(oldData, data): the keys whose value changed.
diffObject(oldData, data) ==
    { <<k, data[k]>> : k \in { j \in DOMAIN data : data[j] # oldData[j] } }

\* The macro calls _updateItemPile makes for a diff, in the order of the code.
diffMacros(data, diff) ==
    IF ~(data.enabled /\ data.isContainer) THEN <<>>
    ELSE (IF <<"closed", TRUE>> \in diff THEN <<"closeItemPile">> ELSE <<>>) \o
         (IF <<"locked", TRUE>> \in diff THEN <<"lockItemPile">> ELSE <<>>) \o
         (IF <<"locked", FALSE>> \in diff THEN <<"unlockItemPile">> ELSE <<>>) \o
         (IF <<"closed", FALSE>> \in diff THEN <<"openItemPile">> ELSE <<>>)

\* ------------------------------------------------------------------- Init
\* Pile A is an item pile token with a macro; B is an ordinary actor (a
\* character sheet), which is no pile and is never auto-deleted.
InitLinesA ==
    { <<>> } \cup
    { << [id |-> 1, name |-> "sword", type |-> "weapon", qty |-> q],
         [id |-> 2, name |-> "gem", type |-> "treasure", qty |-> 1] >> : q \in 1..MaxQty }

InitLinesB == { <<>> }

\* deleteWhenEmpty of pile A and the module setting deleteEmptyPiles.
InitDeletion == { <<"true", FALSE>>, <<"false", TRUE>>, <<"default", TRUE>>, <<"default", FALSE>> }

\* The attribute value pile A starts with.
InitAttrs == 0..1

\* No handler started, nothing dropped, no template actor.
InitDrop ==
    /\ actors = {}
    /\ defaultItemPileActorID = 0
    /\ handlers = <<>>
    /\ pileTokens = <<>>
    /\ site = <<>>

InitPile ==
    /\ pile = [enabled |-> TRUE, isContainer |-> TRUE, closed |-> FALSE, locked |-> FALSE]
    /\ view = pile
    /\ reqs = <<>>
    /\ lastWriter = 0
    /\ sounds = <<>>
    /\ effects = <<>>
    /\ rawUpdate = FALSE

Init ==
    /\ \E a \in InitLinesA, b \in InitLinesB : items = [p \in Piles |-> IF p = "A" THEN a ELSE b]
    /\ exists = [p \in Piles |-> TRUE]
    /\ \E d \in InitDeletion :
         /\ cfg = [p \in Piles |->
                  IF p = "A"
                  THEN [isToken |-> TRUE, enabled |-> TRUE, deleteWhenEmpty |-> d[1],
                        macro |-> "loot"]
                  ELSE [isToken |-> FALSE, enabled |-> FALSE, deleteWhenEmpty |-> "default",
                        macro |-> ""]]
         /\ deleteEmptyPiles = d[2]
    /\ \E a \in InitAttrs : attrs = [p \in Piles |-> IF p = "A" THEN a ELSE 0]
    /\ nextId = 4
    /\ isGMConnected \in BOOLEAN
    /\ nOps = 0
    /\ lastOp = NoOp
    /\ prevOp = NoOp
    /\ InitDrop
    /\ InitPile

Next ==
    \/ addItems
    \/ removeItems
    \/ transferItems
    \/ transferAllItems
    \/ addAttributes
    \/ removeAttributes
    \/ transferAttributes
    \/ transferAllAttributes
    \/ transferEverything
    \/ deleteItemPile

Spec == Init /\ [][Next]_vars

\* The pre-transition hook of each operation; the toggles and updateItemPile
\* have none of their own besides PRE_UPDATE.
OwnHook(op) ==
    CASE op = "openItemPile"   -> "PRE_OPEN"
      [] op = "closeItemPile"  -> "PRE_CLOSE"
      [] op = "lockItemPile"   -> "PRE_LOCK"
      [] op = "unlockItemPile" -> "PRE_UNLOCK"
      [] OTHER                 -> "PRE_UPDATE"

\* API._updatedItemPile, run on every participant by the UPDATED_PILE
\* broadcast: the hooks it calls for a diff, given the participant's pile data.
_updatedItemPile(data, diffData) ==
    IF diffData = {} THEN <<>>
    ELSE <<"UPDATE">> \o
         (IF ~(data.enabled /\ data.isContainer) THEN <<>>
          ELSE (IF <<"closed", TRUE>> \in diffData THEN <<"CLOSE">> ELSE <<>>) \o
               (IF <<"locked", TRUE>> \in diffData THEN <<"LOCK">> ELSE <<>>) \o
               (IF <<"locked", FALSE>> \in diffData THEN <<"UNLOCK">> ELSE <<>>) \o
               (IF <<"closed", FALSE>> \in diffData THEN <<"OPEN">> ELSE <<>>))

\* ------------------------------------------- the container: calls and handler
\* A client calls one of the public operations on its view of the container.
Call(op, out, hooks) ==
    /\ Len(reqs) < MaxRequests
    /\ reqs' = Append(reqs, [op |-> op, pc |-> out.status, was |-> view,
                             preHook |-> (out.status = "refused" \/ hooks[OwnHook(op)]),
                             sounds |-> out.sounds, called |-> out.called, by |-> NoClick,
                             newData |-> out.newData, oldData |-> NoData, data |-> NoData,
                             diff |-> {}, pre |-> NoData, macros |-> <<>>, fired |-> <<>>])
    /\ sounds' = sounds \o out.sounds
    /\ rawUpdate' = (rawUpdate \/ op = "updateItemPile")
    /\ UNCHANGED <<pile, view, lastWriter, effects>>
    /\ UNCHANGED itemVars

callOpenItemPile ==
    \E hooks \in HookChoices : Call("openItemPile", openItemPile(view, hooks), hooks)

callCloseItemPile ==
    \E hooks \in HookChoices : Call("closeItemPile", closeItemPile(view, hooks), hooks)

callToggleItemPileClosed ==
    \E hooks \in HookChoices :
        Call("toggleItemPileClosed", toggleItemPileClosed(view, hooks), hooks)

callLockItemPile ==
    \E hooks \in HookChoices : Call("lockItemPile", lockItemPile(view, hooks), hooks)

callUnlockItemPile ==
    \E hooks \in HookChoices : Call("unlockItemPile", unlockItemPile(view, hooks), hooks)

callToggleItemPileLocked ==
    \E hooks \in HookChoices :
        Call("toggleItemPileLocked", toggleItemPileLocked(view, hooks), hooks)

\* A client calls rattleItemPile; the RATTLE hook goes out through CALL_HOOK.
callRattleItemPile ==
    LET out == rattleItemPile(view)
    IN /\ Len(reqs) < MaxRequests
       /\ reqs' = Append(reqs, [op |-> "rattleItemPile", pc |-> out.status, was |-> view,
                                preHook |-> TRUE,
                                sounds |-> out.sounds, called |-> out.called, by |-> NoClick,
                                newData |-> out.newData, oldData |-> NoData, data |-> NoData,
                                diff |-> {}, pre |-> NoData, macros |-> <<>>, fired |-> <<>>])
       /\ sounds' = sounds \o out.sounds
       /\ effects' = IF out.status = "rattled"
                     THEN Append(effects, Broadcast("CALL_HOOK", "PILE.RATTLE"))
                     ELSE effects
       /\ UNCHANGED <<pile, view, lastWriter, rawUpdate>>
       /\ UNCHANGED itemVars

\* A user clicks the container's token.  Hook listeners have a say only where
\* the click gets as far as calling hooks that can veto.
clickItemPile ==
    /\ Len(reqs) < MaxRequests
    /\ \E tokens \in TokenSets, finite \in BOOLEAN, isGM \in BOOLEAN :
         \E hooks \in IF _itemPileClicked(view, tokens, finite, isGM, isGMConnected,
                                           [h \in HookNames |-> TRUE]).status = "sent"
                       THEN HookChoices ELSE { [h \in HookNames |-> TRUE] } :
           LET out == _itemPileClicked(view, tokens, finite, isGM, isGMConnected, hooks)
           IN /\ isGM => \A t \in tokens : t.owner
              /\ reqs' = Append(reqs,
                     [op |-> "itemPileClicked", pc |-> out.status, was |-> view,
                      preHook |-> TRUE,
                      sounds |-> out.sounds, called |-> out.called,
                      by |-> [isGM |-> isGM, gmConnected |-> isGMConnected, finite |-> finite,
                              ownedNear |-> \E t \in tokens : t.owner /\ t.near,
                              candidateNear |->
                                  \E t \in candidateTokens(tokens) : t.owner /\ t.near],
                      newData |-> out.newData, oldData |-> NoData, data |-> NoData,
                      diff |-> {}, pre |-> NoData, macros |-> <<>>, fired |-> <<>>])
              /\ sounds' = sounds \o out.sounds
              /\ effects' = IF out.status = "rattled"
                            THEN Append(effects, Broadcast("CALL_HOOK", "PILE.RATTLE"))
                            ELSE effects
              /\ UNCHANGED <<pile, view, lastWriter, rawUpdate>>
              /\ UNCHANGED itemVars

\* updateItemPile called directly, with newData of the caller's making: any
\* values for any of the keys closed and locked.
RawNewData ==
    { c \cup l : c \in { {} } \cup { { <<"closed", v>> } : v \in BOOLEAN },
                 l \in { {} } \cup { { <<"locked", v>> } : v \in BOOLEAN } }

callUpdateItemPile ==
    \E hooks \in HookChoices, newData \in RawNewData :
        LET u == updateItemPile(newData, hooks)
        IN Call("updateItemPile",
                [status |-> u.status, newData |-> u.newData, sounds |-> <<>>,
                 called |-> {"PRE_UPDATE"}], hooks)

\* The host brings the client's copy up to date with the store.
syncClient ==
    /\ view # pile
    /\ view' = pile
    /\ UNCHANGED <<pile, reqs, lastWriter, sounds, effects, rawUpdate>>
    /\ UNCHANGED itemVars

\* API._updateItemPile up to `await lib.wait(15)`: read oldData, merge, diff.
handlerRead(i) ==
    /\ reqs[i].pc = "sent"
    /\ LET oldData == pile
           data == mergeObject(oldData, reqs[i].newData)
           diff == diffObject(oldData, data)
       IN reqs' = [reqs EXCEPT ![i].pc = "waiting", ![i].oldData = oldData,
                               ![i].data = data, ![i].diff = diff]
    /\ UNCHANGED <<pile, view, lastWriter, sounds, effects, rawUpdate>>
    /\ UNCHANGED itemVars

\* ... `await lib.updateItemPile(target, data, tokenSettings)`: the write.
handlerWrite(i) ==
    /\ reqs[i].pc = "waiting"
    /\ pile' = reqs[i].data
    /\ lastWriter' = i
    /\ reqs' = [reqs EXCEPT ![i].pc = "written", ![i].pre = pile]
    /\ UNCHANGED <<view, sounds, effects, rawUpdate>>
    /\ UNCHANGED itemVars

\* ... the macro calls, which are not awaited, and the UPDATED_PILE broadcast.
handlerFinish(i) ==
    /\ reqs[i].pc = "written"
    /\ reqs' = [reqs EXCEPT ![i].pc = "done",
                            ![i].macros = diffMacros(reqs[i].data, reqs[i].diff),
                            ![i].fired = _updatedItemPile(pile, reqs[i].diff)]
    /\ effects' = Append(effects, Broadcast("UPDATED_PILE", Container))
    /\ UNCHANGED <<pile, view, lastWriter, sounds, rawUpdate>>
    /\ UNCHANGED itemVars

\* A started _executeItemPileMacro call runs on past its `await fromUuid`.
macroStep(i) ==
    /\ reqs[i].macros # <<>>
    /\ effects' = _executeItemPileMacro([World EXCEPT !.log = effects], Container,
                                        Head(reqs[i].macros)).log
    /\ reqs' = [reqs EXCEPT ![i].macros = Tail(@)]
    /\ UNCHANGED <<pile, view, lastWriter, sounds, rawUpdate>>
    /\ UNCHANGED itemVars

\* Any container, in one of the states OPEN, CLOSED, LOCKED.
InitPileSpec ==
    /\ items = [p \in Piles |-> <<>>]
    /\ exists = [p \in Piles |-> TRUE]
    /\ \E e \in BOOLEAN, c \in BOOLEAN, st \in {<<FALSE, FALSE>>, <<TRUE, FALSE>>, <<TRUE, TRUE>>} :
         /\ cfg = [p \in Piles |->
                    [isToken |-> TRUE, enabled |-> (p = Container /\ e),
                     deleteWhenEmpty |-> "false", macro |-> IF p = Container THEN "loot" ELSE ""]]
         /\ pile = [enabled |-> e, isContainer |-> c, closed |-> st[1], locked |-> st[2]]
    /\ deleteEmptyPiles = FALSE
    /\ attrs = [p \in Piles |-> 0]
    /\ nextId = 4
    /\ isGMConnected \in BOOLEAN
    /\ nOps = 0
    /\ lastOp = NoOp
    /\ prevOp = NoOp
    /\ InitDrop
    /\ view = pile
    /\ reqs = <<>>
    /\ lastWriter = 0
    /\ sounds = <<>>
    /\ effects = <<>>
    /\ rawUpdate = FALSE

NextPile ==
    \/ callOpenItemPile
    \/ callCloseItemPile
    \/ callToggleItemPileClosed
    \/ callLockItemPile
    \/ callUnlockItemPile
    \/ callToggleItemPileLocked
    \/ callRattleItemPile
    \/ clickItemPile
    \/ callUpdateItemPile
    \/ syncClient
    \/ \E i \in 1..Len(reqs) : handlerRead(i)
    \/ \E i \in 1..Len(reqs) : handlerWrite(i)
    \/ \E i \in 1..Len(reqs) : handlerFinish(i)
    \/ \E i \in 1..Len(reqs) : macroStep(i)

SpecPile == InitPileSpec /\ [][NextPile]_vars

\* ============================== creating piles and drops on the canvas
\* The executor's CREATE_PILE and DROP_ITEMS handlers, started when their
\* request arrives and suspended at their awaits, and the client side of a
\* drop on the canvas.  The scene holds the two pile pileTokens of Piles and the
\* token of a character, Hero, the actor items are dragged from.
Hero == "Hero"
SceneDocs == Piles \cup {Hero}

PileNames == {"", "Chest", "Nobody"}

\* An item of the world, dragged from the sidebar or handed to createItemPile.
SidebarItems == { it \in WorldItems : it.name = "gem" }
DefaultName == "Default Item Pile"
ChestId == 100

DefaultActors == { a \in actors : a.name = DefaultName }

\* game.actors.get(id) / game.actors.getName(name): the set of hits.
actorsGet(id) == { a \in actors : a.id = id }
actorsGetName(name) == { a \in actors : a.name = name }

\* The id Actor.create gives the new actor.
freshActorId ==
    LET used == { a.id : a \in DefaultActors } \cup {defaultItemPileActorID}
    IN 1 + CHOOSE n \in used : \A m \in used : m <= n

NoHandler == [op |-> "none", pc |-> "done", sourceUuid |-> "", targetUuid |-> "",
              itemData |-> <<>>, pileActorName |-> "", items |-> <<>>,
              pileActor |-> 0, pre |-> <<>>, post |-> <<>>, dropped |-> <<>>,
              token |-> 0, hooked |-> FALSE,
              isGM |-> FALSE, sourceToken |-> FALSE, distance |-> 0,
              plan |-> <<>>, overlapped |-> FALSE]

\* ---- API.createItemPile (the entry point)
\* "threw" when the named actor does not exist or is no valid pile.
createItemPileThrows(pileActorName) ==
    pileActorName # "" /\ actorsGetName(pileActorName) = {}

createItemPile ==
    /\ Len(handlers) < MaxHandlers
    /\ \E hookResult \in BOOLEAN, pileActorName \in PileNames,
          its \in { <<>> } \cup { << it >> : it \in SidebarItems } :
         LET h == [NoHandler EXCEPT !.op = "CREATE_PILE", !.pileActorName = pileActorName,
                                    !.items = its]
         IN handlers' = Append(handlers,
               IF hookVetoes(hookResult) THEN [h EXCEPT !.pc = "vetoed"]
               ELSE IF createItemPileThrows(pileActorName) THEN [h EXCEPT !.pc = "threw"]
               ELSE IF executeAsGMRejects THEN [h EXCEPT !.pc = "rejected"]
               ELSE [h EXCEPT !.pc = "create"])
    /\ UNCHANGED <<actors, defaultItemPileActorID, pileTokens, site>>
    /\ UNCHANGED <<items, exists, cfg, attrs, deleteEmptyPiles, nextId, isGMConnected,
                   nOps, lastOp, prevOp>>
    /\ UNCHANGED pileVars

\* ---- API._dropDataOnCanvas (the client side of a drop)
\* API.isItemPileLocked on a pile's flags.
isItemPileLocked(data) ==
    IF ~data.enabled \/ ~data.isContainer THEN FALSE ELSE data.locked

\* `distance > maxDistance`, maxDistance = pileData.distance ? pileData.distance
\* : Infinity; a distance flag of 0 is falsy.
tooFar(distance, data) == data.distance # 0 /\ distance > data.distance

NoDropResult == [status |-> "none", targetUuid |-> "", quantity |-> 0]

\* `const targetToken = droppableDocuments[0]; ... if (distance > maxDistance)`
dropRangeViolated(sourceToken, distance, droppableDocuments) ==
    sourceToken /\ tooFar(distance, site[droppableDocuments[1]])

\* The decision of _dropDataOnCanvas.  d is the drop: who drops (isGM), whether
\* the data names a source actor (hasSource) and that actor has a token on the
\* canvas (sourceToken) at `distance` from the piles of the location, the pile
\* handed in as target ("" for none), the piles at the location (docs), the
\* modifier key (altDown), the answers of the dialogs (force, dialog) and of
\* the two hooks.
_dropDataOnCanvas(d) ==
    LET disallowedType == d.itemData.item.type \in ITEM_TYPE_FILTERS
        docs == IF d.target # "" THEN << d.target >> ELSE d.docs
        unlocked == SelectSeq(docs, LAMBDA p : ~isItemPileLocked(site[p]))
        droppableDocuments == IF docs # <<>> /\ ~d.isGM THEN unlocked ELSE docs
        action == IF d.altDown
                  THEN (IF droppableDocuments # <<>> THEN "addToPile" ELSE "")
                  ELSE d.dialog.action
        quantity == IF d.altDown THEN 1 ELSE d.dialog.quantity
    IN IF disallowedType /\ ~d.isGM THEN [NoDropResult EXCEPT !.status = "warnedDisallowed"]
       ELSE IF disallowedType /\ ~d.force THEN [NoDropResult EXCEPT !.status = "cancelled"]
       ELSE IF ~d.hasSource /\ ~d.isGM THEN [NoDropResult EXCEPT !.status = "warnedNoSource"]
       ELSE IF ~d.preDropDetermined THEN [NoDropResult EXCEPT !.status = "vetoed"]
       ELSE IF docs # <<>> /\ ~d.isGM /\ dropRangeViolated(d.sourceToken, d.distance, docs)
       THEN [NoDropResult EXCEPT !.status = "warnedTooFar"]
       ELSE IF docs # <<>> /\ ~d.isGM /\ unlocked = <<>>
       THEN [NoDropResult EXCEPT !.status = "warnedLocked"]
       ELSE IF ~d.altDown /\ d.dialog.action = ""
       THEN [NoDropResult EXCEPT !.status = "cancelled"]
       ELSE IF ~d.preDrop THEN [NoDropResult EXCEPT !.status = "vetoed"]
       ELSE [status |-> "dispatched",
             targetUuid |-> IF action = "addToPile" THEN droppableDocuments[1] ELSE "",
             quantity |-> quantity]

\* The piles that can lie at one location, in canvas order.  A drop onto a
\* pile's own window hands that pile in as target: the list is then that pile
\* alone.
DocLists == { <<>> } \cup { << p >> : p \in Piles } \cup
            { pq \in Piles \X Piles : pq[1] # pq[2] }

\* What the drop dialog can answer for the piles offered: nothing (closed),
\* a new pile, or, when a pile is offered, adding to it.
NoAnswer == [action |-> "", quantity |-> 0]
DialogAnswers(offered) ==
    { NoAnswer } \cup
    { [action |-> a, quantity |-> q] :
        a \in {"newPile"} \cup (IF offered THEN {"addToPile"} ELSE {}), q \in 1..MaxQty }

\* The piles the dialog is given.
Offered(isGM, docs) ==
    IF ~isGM THEN SelectSeq(docs, LAMBDA p : ~isItemPileLocked(site[p])) # <<>>
    ELSE docs # <<>>

\* The answers of the hooks PRE_DROP_DETERMINED and PRE_DROP.
DropHooks == { <<TRUE, TRUE>>, <<FALSE, TRUE>>, <<TRUE, FALSE>> }

\* A drop a user makes: an item dragged from Hero's sheet is one of Hero's
\* lines, without a source it is an item of the world; Hero's token, if on
\* the canvas, is at some distance from the piles of the location; the dialog
\* is asked when the modifier key is not held.
dropDataOnCanvas ==
    /\ Len(handlers) < MaxHandlers
    /\ \E isGM \in BOOLEAN, hasSource \in BOOLEAN, docs \in DocLists, altDown \in BOOLEAN :
       \E sourceToken \in (IF hasSource /\ ~isGM THEN BOOLEAN ELSE {FALSE}) :
       \E distance \in (IF sourceToken THEN 1..MaxDistance ELSE {0}) :
       \E dialog \in (IF altDown THEN {NoAnswer} ELSE DialogAnswers(Offered(isGM, docs))) :
       \E h \in DropHooks :
       \E it \in (IF hasSource THEN Range(items[Hero]) ELSE SidebarItems) :
         /\ \A p \in Range(docs) : isValidItemPile(World, p)
         /\ LET r == _dropDataOnCanvas(
                        [isGM |-> isGM, hasSource |-> hasSource, sourceToken |-> sourceToken,
                         distance |-> distance, target |-> "", docs |-> docs,
                         altDown |-> altDown, force |-> TRUE, dialog |-> dialog,
                         preDropDetermined |-> h[1], preDrop |-> h[2],
                         itemData |-> [item |-> it]])
                itemData == [item |-> [it EXCEPT !.qty = r.quantity], quantity |-> r.quantity]
                dropped == [NoHandler EXCEPT !.op = "DROP_ITEMS"]
            IN handlers' = Append(handlers,
                  IF r.status # "dispatched" THEN [dropped EXCEPT !.pc = r.status]
                  ELSE IF executeAsGMRejects THEN [dropped EXCEPT !.pc = "rejected"]
                  ELSE [dropped EXCEPT !.pc = "sent",
                                       !.sourceUuid = IF hasSource THEN Hero ELSE "",
                                       !.targetUuid = r.targetUuid,
                                       !.itemData = itemData,
                                       !.isGM = isGM, !.sourceToken = sourceToken,
                                       !.distance = distance])
    /\ UNCHANGED <<actors, defaultItemPileActorID, pileTokens, site>>
    /\ UNCHANGED <<items, exists, cfg, attrs, deleteEmptyPiles, nextId, isGMConnected,
                   nOps, lastOp, prevOp>>
    /\ UNCHANGED pileVars

\* ---- API._dropItems (the DROP_ITEMS handler)
\* The mutation _dropItems delegates to, before any pile is created.
_dropItemsMutation(w, sourceUuid, targetUuid, itemData) ==
    LET itemsToTransfer == << [id |-> itemData.item.id, quantity |-> itemData.quantity] >>
    IN IF sourceUuid # ""
       THEN IF targetUuid # ""
            THEN _transferItems(w, sourceUuid, targetUuid, itemsToTransfer, FALSE)
            ELSE _removeItems(w, sourceUuid, itemsToTransfer, FALSE)
       ELSE IF targetUuid # ""
            THEN _addItems(w, targetUuid, << itemData >>, FALSE)
            ELSE [w |-> w, res |-> <<>>]

\* The items handed to _createItemPile as they would be if the dragged item
\* data were handed on for a drop from a source too.
itemsForNewPileAsDragged(sourceUuid, itemData, itemsDropped) == << itemData >>

\* `{ items: itemsDropped }` for a drop from a source, `{ items: [itemData] }`
\* without one.
itemsForNewPile(sourceUuid, itemData, itemsDropped) ==
    IF sourceUuid # "" THEN itemsDropped ELSE << itemData >>

\* The handler up to its call of _createItemPile, or, with a target, up to
\* its broadcast.
dropItemsRun(i) ==
    /\ handlers[i].op = "DROP_ITEMS" /\ handlers[i].pc = "sent"
    /\ LET h == handlers[i]
       IN \E out \in { _dropItemsMutation(World, h.sourceUuid, h.targetUuid, h.itemData) } :
              /\ items' = out.w.items
              /\ attrs' = out.w.attrs
              /\ exists' = out.w.exists
              /\ nextId' = out.w.nextId
              /\ handlers' = [handlers EXCEPT ![i] =
                    [h EXCEPT !.pc = IF out.w.failed THEN "failed"
                                     ELSE IF h.targetUuid # "" THEN "hook" ELSE "create",
                              !.pre = IF h.sourceUuid # "" THEN items[h.sourceUuid] ELSE <<>>,
                              !.post = IF h.sourceUuid # "" THEN out.w.items[h.sourceUuid]
                                       ELSE <<>>,
                              !.dropped = out.res,
                              !.items = itemsForNewPile(h.sourceUuid, h.itemData,
                                                        out.res)]]
    /\ UNCHANGED <<actors, defaultItemPileActorID, pileTokens, site>>
    /\ UNCHANGED <<cfg, deleteEmptyPiles, isGMConnected, nOps, lastOp, prevOp>>
    /\ UNCHANGED pileVars

\* `await itemPileSocket.executeForEveryone(CALL_HOOK, HOOKS.ITEM.DROP, ...)`
dropHook(i) ==
    /\ handlers[i].pc = "hook"
    /\ handlers' = [handlers EXCEPT ![i].pc = "done", ![i].hooked = TRUE]
    /\ UNCHANGED <<actors, defaultItemPileActorID, pileTokens, site>>
    /\ UNCHANGED <<items, exists, cfg, attrs, deleteEmptyPiles, nextId, isGMConnected,
                   nOps, lastOp, prevOp>>
    /\ UNCHANGED pileVars

\* ---- API._createItemPile, one action per stretch between two awaits
CreateFrame ==
    /\ UNCHANGED site
    /\ UNCHANGED <<items, exists, cfg, attrs, deleteEmptyPiles, nextId, isGMConnected,
                   nOps, lastOp, prevOp>>
    /\ UNCHANGED pileVars

\* `game.settings.get(.., "defaultItemPileActorID") ? game.actors.get(..) : false`
defaultPileActor ==
    IF defaultItemPileActorID # 0 THEN actorsGet(defaultItemPileActorID) ELSE {}

\* From the start of _createItemPile to its first await: the template actor
\* is looked up; without one, Actor.create is called.
createRead(i) ==
    /\ handlers[i].pc = "create"
    /\ LET h == handlers[i]
           found == IF h.pileActorName = "" THEN defaultPileActor
                    ELSE actorsGetName(h.pileActorName)
       IN handlers' = [handlers EXCEPT ![i] =
             IF found # {}
             THEN [h EXCEPT !.pc = "token", !.pileActor = (CHOOSE a \in found : TRUE).id]
             ELSE IF h.pileActorName = "" THEN [h EXCEPT !.pc = "actorCreate"]
             ELSE [h EXCEPT !.pc = "failed"]]
    /\ UNCHANGED <<actors, defaultItemPileActorID, pileTokens>>
    /\ CreateFrame

\* `pileActor = await Actor.create({name: "Default Item Pile", ...})`
actorCreate(i) ==
    /\ handlers[i].pc = "actorCreate"
    /\ actors' = actors \cup { [id |-> freshActorId, name |-> DefaultName, actorLink |-> FALSE] }
    /\ handlers' = [handlers EXCEPT ![i].pc = "actorUpdate", ![i].pileActor = freshActorId]
    /\ UNCHANGED <<defaultItemPileActorID, pileTokens>>
    /\ CreateFrame

\* `await pileActor.update({"token": {actorLink: false, ...}})`
actorUpdate(i) ==
    /\ handlers[i].pc = "actorUpdate"
    /\ actors' = { IF a.id = handlers[i].pileActor THEN [a EXCEPT !.actorLink = FALSE] ELSE a :
                   a \in actors }
    /\ handlers' = [handlers EXCEPT ![i].pc = "settingSet"]
    /\ UNCHANGED <<defaultItemPileActorID, pileTokens>>
    /\ CreateFrame

\* `await game.settings.set(.., "defaultItemPileActorID", pileActor.id)`
settingSet(i) ==
    /\ handlers[i].pc = "settingSet"
    /\ defaultItemPileActorID' = handlers[i].pileActor
    /\ handlers' = [handlers EXCEPT ![i].pc = "token"]
    /\ UNCHANGED <<actors, pileTokens>>
    /\ CreateFrame

\* `items.map(itemData => itemData.item ?? itemData)`
createdItems(its) ==
    [ n \in 1..Len(its) |-> IF "item" \in DOMAIN its[n] THEN its[n].item ELSE its[n] ]

\* The token data and `scene.createEmbeddedDocuments("Token", [tokenData])`:
\* an unlinked template gets the items as actorData, a linked one shows its
\* actor's own inventory.
tokenCreate(i) ==
    /\ handlers[i].pc = "token"
    /\ LET h == handlers[i]
           pileActor == CHOOSE a \in actorsGet(h.pileActor) : TRUE
       IN /\ pileTokens' = Append(pileTokens,
                [actor |-> pileActor.id, linked |-> pileActor.actorLink,
                 items |-> IF ~pileActor.actorLink THEN createdItems(h.items) ELSE <<>>])
          /\ handlers' = [handlers EXCEPT ![i].token = Len(pileTokens) + 1,
                                          ![i].pc = IF h.op = "DROP_ITEMS" THEN "hook"
                                                    ELSE "done"]
    /\ UNCHANGED <<actors, defaultItemPileActorID>>
    /\ CreateFrame

\* Hero carries swords; the piles A and B lie on the scene, each with its own
\* lock and range flags (B an unlocked container of range 1); a linked Chest
\* template exists; the default template may exist already, or have been
\* deleted after the setting was stored.
PileFlags ==
    { [enabled |-> TRUE, isContainer |-> TRUE, locked |-> l, distance |-> dist] :
        l \in BOOLEAN, dist \in 0..1 }

InitCreate ==
    /\ items = [p \in SceneDocs |->
                  IF p = Hero
                  THEN << [id |-> 1, name |-> "sword", type |-> "weapon", qty |-> MaxQty] >>
                  ELSE <<>>]
    /\ exists = [p \in SceneDocs |-> TRUE]
    /\ cfg = [p \in SceneDocs |->
               [isToken |-> TRUE, enabled |-> p # Hero, deleteWhenEmpty |-> "false",
                macro |-> ""]]
    /\ deleteEmptyPiles = FALSE
    /\ attrs = [p \in SceneDocs |-> 0]
    /\ nextId = 4
    /\ isGMConnected \in BOOLEAN
    /\ nOps = 0
    /\ lastOp = NoOp
    /\ prevOp = NoOp
    /\ InitPile
    /\ \E stored \in { <<0, FALSE>>, <<1, TRUE>>, <<1, FALSE>> } :
         /\ defaultItemPileActorID = stored[1]
         /\ actors = { [id |-> ChestId, name |-> "Chest", actorLink |-> TRUE] } \cup
                     (IF stored[2]
                      THEN { [id |-> 1, name |-> DefaultName, actorLink |-> FALSE] }
                      ELSE {})
    /\ handlers = <<>>
    /\ pileTokens = <<>>
    /\ \E a \in PileFlags :
         site = [p \in Piles |-> IF p = "A" THEN a
                                 ELSE [enabled |-> TRUE, isContainer |-> TRUE,
                                       locked |-> FALSE, distance |-> 1]]

NextCreate ==
    \/ createItemPile
    \/ dropDataOnCanvas
    \/ \E i \in 1..Len(handlers) : dropItemsRun(i)
    \/ \E i \in 1..Len(handlers) : createRead(i)
    \/ \E i \in 1..Len(handlers) : actorCreate(i)
    \/ \E i \in 1..Len(handlers) : actorUpdate(i)
    \/ \E i \in 1..Len(handlers) : settingSet(i)
    \/ \E i \in 1..Len(handlers) : tokenCreate(i)
    \/ \E i \in 1..Len(handlers) : dropHook(i)

SpecCreate == InitCreate /\ [][NextCreate]_vars

\* ================================ item requests with handlers in flight
\* The entry points removeItems and transferItems check the request against
\* the caller's documents and send it; the executor's handler starts when the
\* request arrives and is suspended at its awaits, where the handler of
\* another request may run.  _removeItems reads every line it needs in one
\* synchronous stretch and writes at the awaits that follow.

\* The requests of the clients: up to MaxEntries entries naming lines of p.
RaceRequests(p) ==
    LET ids == { l.id : l \in Range(getDocumentItems(items[p], [given |-> FALSE])) }
    IN SeqsUpTo({ [id |-> i, quantity |-> q] : i \in ids, q \in ListQuantities }, MaxEntries)

\* Another handler is between its read and its end.
OtherInFlight(i) ==
    \E j \in 1..Len(handlers) :
        j # i /\ handlers[j].pc \in {"removeWrite", "removeTail", "add"}

RaceFrame ==
    /\ UNCHANGED <<actors, defaultItemPileActorID, pileTokens, site>>
    /\ UNCHANGED <<cfg, deleteEmptyPiles, isGMConnected, nOps, lastOp, prevOp>>
    /\ UNCHANGED pileVars

\* What an entry point makes of a call: vetoed by the hook, rejected for want
\* of an executor, or sent.
Sent(h, hookResult) ==
    /\ handlers' = Append(handlers,
          IF hookVetoes(hookResult) THEN [h EXCEPT !.pc = "vetoed"]
          ELSE IF executeAsGMRejects THEN [h EXCEPT !.pc = "rejected"]
          ELSE [h EXCEPT !.pc = "sent", !.pre = items])
    /\ UNCHANGED <<items, attrs, exists, nextId>>
    /\ RaceFrame

\* API.removeItems, up to executeAsGM(REMOVE_ITEMS, ...)
requestRemoveItems ==
    /\ Len(handlers) < MaxHandlers
    /\ \E target \in Piles, hookResult \in BOOLEAN :
       \E its \in RaceRequests(target) :
         LET targetActorItems == getDocumentItems(items[target], [given |-> FALSE])
         IN /\ exists[target]
            /\ EntriesFound(targetActorItems, its)
            /\ Sent([NoHandler EXCEPT !.op = "REMOVE_ITEMS", !.targetUuid = target,
                                      !.items = removeItemsMap(targetActorItems, its)],
                    hookResult)

\* API.transferItems, up to executeAsGM(TRANSFER_ITEMS, ...)
requestTransferItems ==
    /\ Len(handlers) < MaxHandlers
    /\ \E source \in Piles, target \in Piles, hookResult \in BOOLEAN :
       \E its \in RaceRequests(source) :
         LET sourceActorItems == getDocumentItems(items[source], [given |-> FALSE])
         IN /\ source # target
            /\ exists[source] /\ exists[target]
            /\ EntriesFound(sourceActorItems, its)
            /\ Sent([NoHandler EXCEPT !.op = "TRANSFER_ITEMS", !.sourceUuid = source,
                                      !.targetUuid = target,
                                      !.items = transferItemsMap(sourceActorItems, its)],
                    hookResult)

\* The document _removeItems works on.
RemovalOf(h) == IF h.op = "TRANSFER_ITEMS" THEN h.sourceUuid ELSE h.targetUuid

\* The for-loop of _removeItems as it would be if an entry whose id is not in
\* the collection were skipped.
removeReadSkipsMissing(w, targetUuid, its) ==
    LET lines == IF w.exists[targetUuid] THEN w.items[targetUuid] ELSE <<>>
        present == SelectSeq(its, LAMBDA e : LineIndex(lines, e.id) # 0)
    IN [threw |-> FALSE,
        plan |-> removeLoop(lines, present,
                    [itemsToUpdate |-> <<>>, itemsToDelete |-> <<>>, itemsRemoved |-> <<>>])]

\* `await fromUuid(targetUuid)` and the for-loop of _removeItems: it throws
\* when the document is gone or an id is not in the collection
\* (items.get(id) is undefined), else it leaves the writes to make.
removeRead(w, targetUuid, its) ==
    IF \/ ~w.exists[targetUuid]
       \/ \E n \in 1..Len(its) : LineIndex(w.items[targetUuid], its[n].id) = 0
    THEN [threw |-> TRUE, plan |-> <<>>]
    ELSE [threw |-> FALSE,
          plan |-> removeLoop(w.items[targetUuid], its,
                      [itemsToUpdate |-> <<>>, itemsToDelete |-> <<>>, itemsRemoved |-> <<>>])]

handlerRemoveRead(i) ==
    /\ handlers[i].op \in {"REMOVE_ITEMS", "TRANSFER_ITEMS"}
    /\ handlers[i].pc = "sent"
    /\ LET h == handlers[i]
           r == removeRead(World, RemovalOf(h), h.items)
       IN handlers' = [handlers EXCEPT ![i] =
             IF r.threw THEN [h EXCEPT !.pc = "failed"]
             ELSE [h EXCEPT !.pc = "removeWrite", !.plan = r.plan,
                            !.dropped = r.plan.itemsRemoved,
                            !.overlapped = OtherInFlight(i)]]
    /\ UNCHANGED <<items, attrs, exists, nextId>>
    /\ RaceFrame

\* `await updateEmbeddedDocuments("Item", itemsToUpdate); await
\* deleteEmbeddedDocuments("Item", itemsToDelete)` and the REMOVE broadcast.
handlerRemoveWrite(i) ==
    /\ handlers[i].pc = "removeWrite"
    /\ LET h == handlers[i]
           p == RemovalOf(h)
       IN /\ items' = [items EXCEPT ![p] =
                deleteEmbeddedDocuments(updateEmbeddedDocuments(@, h.plan.itemsToUpdate),
                                        h.plan.itemsToDelete)]
          /\ handlers' = [handlers EXCEPT ![i].pc =
                IF h.op = "TRANSFER_ITEMS" THEN "add" ELSE "removeTail"]
    /\ UNCHANGED <<attrs, exists, nextId>>
    /\ RaceFrame

\* The rest of _removeItems outside a transfer: macro, emptiness check,
\* re-render, deletion.
removeTail(w, targetUuid) ==
    LET w2 == _executeItemPileMacro(w, targetUuid, "removeItems")
        shouldBeDeleted == ~w2.failed /\ _checkItemPileShouldBeDeleted(w2, targetUuid)
        w3 == IF w2.failed THEN w2
              ELSE rerenderItemPileInventoryApplication(
                       [w2 EXCEPT !.log = Append(@, Checked(targetUuid))], targetUuid)
    IN IF shouldBeDeleted THEN _deleteItemPile(w3, targetUuid) ELSE w3

handlerRemoveTail(i) ==
    /\ handlers[i].pc = "removeTail"
    /\ \E w \in { removeTail(World, handlers[i].targetUuid) } :
         /\ items' = w.items
         /\ attrs' = w.attrs
         /\ exists' = w.exists
         /\ nextId' = w.nextId
         /\ handlers' = [handlers EXCEPT ![i].pc = IF w.failed THEN "failed" ELSE "done"]
    /\ RaceFrame

\* The rest of _transferItems: _addItems with the records of the removal, the
\* TRANSFER broadcast and the tail of the transfer.
transferRest(w, sourceUuid, targetUuid, itemsRemoved) ==
    LET added == _addItems(w, targetUuid, itemsRemoved, TRUE)
    IN IF added.w.failed THEN added
       ELSE [w |-> afterTransfer(
                      [added.w EXCEPT !.log = Append(@, Broadcast("CALL_HOOK", "ITEM.TRANSFER"))],
                      sourceUuid, targetUuid, "transferItems"),
             res |-> added.res]

handlerAdd(i) ==
    /\ handlers[i].pc = "add"
    /\ LET h == handlers[i]
       IN \E out \in { transferRest(World, h.sourceUuid, h.targetUuid, h.dropped) } :
            /\ items' = out.w.items
            /\ attrs' = out.w.attrs
            /\ exists' = out.w.exists
            /\ nextId' = out.w.nextId
            /\ handlers' = [handlers EXCEPT ![i].pc = IF out.w.failed THEN "failed" ELSE "done"]
    /\ RaceFrame

\* Pile A holds lines, B is empty; no request made yet.
InitRace ==
    /\ Init
    /\ items["A"] # <<>>
    /\ attrs["A"] = 0

NextRace ==
    \/ requestRemoveItems
    \/ requestTransferItems
    \/ \E i \in 1..Len(handlers) : handlerRemoveRead(i)
    \/ \E i \in 1..Len(handlers) : handlerRemoveWrite(i)
    \/ \E i \in 1..Len(handlers) : handlerRemoveTail(i)
    \/ \E i \in 1..Len(handlers) : handlerAdd(i)

SpecRace == InitRace /\ [][NextRace]_vars

\* ===================================================== the item claims

\* The store before and after the last request, per item identity.
Before(p, k) == QtyOf(lastOp.pre[p], k)
After(p, k) == QtyOf(items[p], k)

LastIs(op) == lastOp.op = op /\ lastOp.status = "ok"

\* C1: a transferItems request that completes leaves, for every item identity,
\* the sum of its quantities on source and target as it was before the request.
C1_TransferConservesQuantity ==
    LastIs("transferItems") =>
        \A k \in Kinds :
            After(lastOp.source, k) + After(lastOp.target, k)
                = Before(lastOp.source, k) + Before(lastOp.target, k)

\* C2: every inventory line that exists has quantity > 0.
C2_NoZeroQuantityLine ==
    \A p \in Piles : \A i \in 1..Len(items[p]) : items[p][i].qty > 0

\* C3: removeItems, for a line of current quantity c and requested quantity r:
\* if c - r >= 1 the record reports r with deleted = false and the line is stored
\* with c - r; otherwise the record reports c with deleted = true and the line is
\* gone.  Lines the request does not name are untouched, and no stored quantity
\* is negative.
C3_RemoveItemsRecord(i) ==
    LET before == lastOp.pre[lastOp.target]
        e == lastOp.items[i]
        c == before[LineIndex(before, e.id)].qty
        r == e.quantity
        rec == lastOp.res[i]
        now == items[lastOp.target]
        named == { j \in 1..Len(lastOp.items) : lastOp.items[j].id = e.id }
    IN /\ rec.item.id = e.id
       /\ IF c - r >= 1
          THEN /\ rec.quantity = r /\ ~rec.deleted
               /\ named = {i} /\ exists[lastOp.target]
                    => /\ LineIndex(now, e.id) # 0
                       /\ now[LineIndex(now, e.id)].qty = c - r
          ELSE /\ rec.quantity = c /\ rec.deleted
               /\ LineIndex(now, e.id) = 0

C3_RemoveItems ==
    LastIs("removeItems") =>
        /\ Len(lastOp.res) = Len(lastOp.items)
        /\ \A i \in 1..Len(lastOp.items) : C3_RemoveItemsRecord(i)
        /\ \A l \in Range(items[lastOp.target]) : l.qty >= 0
        /\ exists[lastOp.target] =>
             \A l \in Range(lastOp.pre[lastOp.target]) :
                 (\A j \in 1..Len(lastOp.items) : lastOp.items[j].id # l.id)
                    => l \in Range(items[lastOp.target])

\* C3's case: a request for more than the line holds has removed the line and
\* reports what the line held.
C3_Witness ==
    /\ LastIs("removeItems")
    /\ \E i \in 1..Len(lastOp.items) :
         /\ lastOp.res[i].deleted
         /\ lastOp.res[i].quantity < lastOp.items[i].quantity

\* C4: addItems of quantity n > 0 and then addItems of quantity m > 0 of the same
\* identity, on a pile that was empty, leave exactly one line, of quantity n + m;
\* the second request reports the delta m.
C4_TwoAdds ==
    /\ prevOp.op = "addItems" /\ prevOp.status = "ok"
    /\ LastIs("addItems")
    /\ lastOp.target = prevOp.target
    /\ prevOp.pre[prevOp.target] = <<>>
    /\ Len(prevOp.items) = 1 /\ Len(lastOp.items) = 1
    /\ "quantity" \in DOMAIN prevOp.items[1] /\ "quantity" \in DOMAIN lastOp.items[1]
    /\ prevOp.items[1].quantity > 0 /\ lastOp.items[1].quantity > 0
    /\ prevOp.items[1].item = lastOp.items[1].item

C4_AddMerges ==
    C4_TwoAdds =>
        LET now == items[lastOp.target]
            n == prevOp.items[1].quantity
            m == lastOp.items[1].quantity
        IN /\ Len(now) = 1
           /\ now[1].name = lastOp.items[1].item.name
           /\ now[1].type = lastOp.items[1].item.type
           /\ now[1].qty = n + m
           /\ Len(lastOp.res) = 1
           /\ lastOp.res[1].quantity = m

C4_Witness == C4_TwoAdds /\ exists[lastOp.target] /\ cfg[lastOp.target].enabled

\* C5: transferItems(A, B, items) followed by transferItems(B, A, records), with
\* the records the first call returned, restores every quantity on A and on B.
C5_IsRoundTrip ==
    /\ prevOp.op = "transferItems" /\ prevOp.status = "ok"
    /\ LastIs("transferItems")
    /\ lastOp.source = prevOp.target /\ lastOp.target = prevOp.source
    /\ prevOp.res # <<>>
    /\ lastOp.items = transferItemsMap(<<>>, prevOp.res)

C5_RoundTripRestores ==
    C5_IsRoundTrip =>
        \A p \in Piles : \A k \in Kinds : After(p, k) = QtyOf(prevOp.pre[p], k)

\* C7: every executeForEveryone broadcast names a handler that does not write
\* the document store.
NonMutatingHandlers ==
    {"CALL_HOOK", "UPDATED_PILE", "RERENDER_PILE_INVENTORY", "RERENDER_TOKEN_HUD"}

C7_BroadcastsAreNonMutating ==
    \A i \in 1..Len(lastOp.log) :
        lastOp.log[i].e = "executeForEveryone" => lastOp.log[i].handler \in NonMutatingHandlers

\* C13: for each of the nine item and attribute operations, when the
\* pre-operation hook returned false the call returns undefined without
\* throwing (it is recorded "vetoed", with no result), nothing is dispatched to
\* the executor (no effect is logged) and the store is as it was.
C13_VetoLeavesStoreUnchanged ==
    (lastOp.op # "none" /\ lastOp.hookResult = FALSE)
        => /\ lastOp.status = "vetoed"
           /\ lastOp.res = <<>>
           /\ lastOp.log = <<>>
           /\ items = lastOp.pre
           /\ attrs = lastOp.preAttrs
           /\ exists = lastOp.preExists

\* C13's case: a vetoed transferEverything from a pile that holds items,
\* after a vetoed attribute request.
C13_Witness ==
    /\ lastOp.op = "transferEverything" /\ lastOp.hookResult = FALSE
    /\ prevOp.op \in {"addAttributes", "removeAttributes", "transferAttributes"}
    /\ prevOp.hookResult = FALSE
    /\ items[lastOp.source] # <<>>
    /\ attrs[lastOp.source] > 0

\* The condition C14 states for pile p in the current store.
DeletionRule(p) ==
    /\ exists[p] /\ cfg[p].isToken
    /\ cfg[p].enabled
    /\ \/ cfg[p].deleteWhenEmpty = "true"
       \/ (cfg[p].deleteWhenEmpty = "default" /\ deleteEmptyPiles)
    /\ Len(items[p]) = 0
    /\ attrs[p] <= 0

\* C14: _checkItemPileShouldBeDeleted is true if and only if the target is a
\* token document, the pile is enabled, deleteWhenEmpty resolves to true
\* (explicit true, or default while the setting deleteEmptyPiles is true) and
\* the pile holds zero items and zero positive attributes: in every state the
\* decision equals that condition, a request that made the check and did not
\* delete left a pile that does not meet it, and a pile that was deleted was
\* an enabled token pile whose deleteWhenEmpty resolved to true.
C14_DeletionDecision ==
    /\ \A p \in Piles : _checkItemPileShouldBeDeleted(World, p) <=> DeletionRule(p)
    /\ \A p \in Piles :
         (lastOp.status = "ok" /\ Checked(p) \in Range(lastOp.log))
            => IF Deleted(p) \in Range(lastOp.log)
               THEN /\ ~exists[p]
                    /\ cfg[p].isToken /\ cfg[p].enabled
                    /\ \/ cfg[p].deleteWhenEmpty = "true"
                       \/ (cfg[p].deleteWhenEmpty = "default" /\ deleteEmptyPiles)
               ELSE exists[p] /\ ~DeletionRule(p)

\* C14's case: the check of a removeAttributes request found the pile, with
\* deleteWhenEmpty at its default, empty once its last attribute was gone.
C14_Witness ==
    /\ LastIs("removeAttributes")
    /\ lastOp.pre[lastOp.target] = <<>>
    /\ lastOp.preAttrs[lastOp.target] > 0
    /\ cfg[lastOp.target].deleteWhenEmpty = "default"
    /\ Deleted(lastOp.target) \in Range(lastOp.log)

\* A completed removeItems request on an enabled token pile that removed every
\* line the pile held.
RemovedLastItem ==
    /\ LastIs("removeItems")
    /\ cfg[lastOp.target].isToken /\ cfg[lastOp.target].enabled
    /\ lastOp.pre[lastOp.target] # <<>>
    /\ \A l \in Range(lastOp.pre[lastOp.target]) :
         \E i \in 1..Len(lastOp.res) :
             lastOp.res[i].item.id = l.id /\ lastOp.res[i].deleted

\* C15: a removeItems request that removes the last item of an enabled token
\* pile with deleteWhenEmpty = true deletes the pile document within the same
\* request; with deleteWhenEmpty = false the pile still exists after the
\* request, holding zero items.
C15_LastItemRemovedDeletesPile ==
    RemovedLastItem =>
        /\ cfg[lastOp.target].deleteWhenEmpty = "true"
              => (~exists[lastOp.target] /\ Deleted(lastOp.target) \in Range(lastOp.log))
        /\ cfg[lastOp.target].deleteWhenEmpty = "false"
              => (exists[lastOp.target] /\ items[lastOp.target] = <<>>)

\* C15 as amended: with deleteWhenEmpty = true the pile is deleted within the
\* same request when it holds no positive attribute either; when it still holds
\* a positive attribute it is not empty and survives with zero items.  With
\* deleteWhenEmpty = false it survives with zero items.
C15_LastItemRemovedDeletesEmptyPile ==
    RemovedLastItem =>
        /\ (cfg[lastOp.target].deleteWhenEmpty = "true" /\ lastOp.preAttrs[lastOp.target] <= 0)
              => (~exists[lastOp.target] /\ Deleted(lastOp.target) \in Range(lastOp.log))
        /\ (cfg[lastOp.target].deleteWhenEmpty = "true" /\ lastOp.preAttrs[lastOp.target] > 0)
              => /\ exists[lastOp.target] /\ items[lastOp.target] = <<>>
                 /\ attrs[lastOp.target] = lastOp.preAttrs[lastOp.target]
        /\ cfg[lastOp.target].deleteWhenEmpty = "false"
              => (exists[lastOp.target] /\ items[lastOp.target] = <<>>)

\* C15's case: the request that removed both lines of a pile with
\* deleteWhenEmpty = true has deleted the pile.
C15_Witness ==
    /\ RemovedLastItem
    /\ Len(lastOp.pre[lastOp.target]) = 2
    /\ cfg[lastOp.target].deleteWhenEmpty = "true"
    /\ ~exists[lastOp.target]

\* C16: in transferItems the emptiness check and the deletion are applied to
\* the source only, and only after the removed items were written to the
\* target: the removal sub-step neither checks nor deletes, the target is not
\* deleted, and a completed transfer makes exactly one check.
C16_TransferChecksSourceAfterAdd ==
    (lastOp.op = "transferItems" /\ lastOp.status \in {"ok", "failed"})
        => LET log == lastOp.log
               written == IndicesOf(log, Write(lastOp.target))
           IN /\ \A i \in 1..Len(log) :
                    log[i].e \in {"check", "delete"}
                        => /\ log[i].pile = lastOp.source
                           /\ \E j \in written : j < i
              /\ exists[lastOp.target] = lastOp.preExists[lastOp.target]
              /\ lastOp.status = "ok"
                    => /\ Cardinality(IndicesOf(log, Checked(lastOp.source))) = 1
                       /\ written # {}

\* C16's case: a transfer that emptied the source pile has deleted it, after
\* the items were written to the target.
C16_Witness ==
    /\ LastIs("transferItems")
    /\ Deleted(lastOp.source) \in Range(lastOp.log)
    /\ ~exists[lastOp.source]
    /\ items[lastOp.target] # <<>>

\* C17: in the effects of one transferEverything request there is no
\* TRANSFER_ALL hook broadcast of the inner steps, no macro run other than the
\* one transferEverything pass per side, exactly one TRANSFER_EVERYTHING
\* broadcast, exactly one emptiness check and at most one deletion.
C17_TransferEverythingSuppressesInner ==
    LastIs("transferEverything") =>
        LET log == lastOp.log
        IN /\ \A i \in 1..Len(log) :
                 log[i].e = "executeForEveryone"
                    => log[i].hook \notin {"ITEM.TRANSFER_ALL", "ATTRIBUTE.TRANSFER_ALL"}
           /\ Cardinality(IndicesOf(log, Broadcast("CALL_HOOK", "TRANSFER_EVERYTHING"))) = 1
           /\ \A i \in 1..Len(log) :
                 log[i].e = "macro" => log[i].action = "transferEverything"
           /\ \A p \in Piles :
                 Cardinality(IndicesOf(log, MacroRun(p, "transferEverything"))) <= 1
           /\ Cardinality({ i \in 1..Len(log) : log[i].e = "check" }) = 1
           /\ Cardinality({ i \in 1..Len(log) : log[i].e = "delete" }) <= 1

\* The item types a transferAllItems request leaves behind.
FilterOf(itemTypeFilters) ==
    IF itemTypeFilters.given THEN itemTypeFilters.types ELSE ITEM_TYPE_FILTERS

\* C18: a completed transferAllItems(source, target, itemTypeFilters) has
\* removed from the source every line whose type is not in the filter and the
\* target has gained, per item identity, the full quantity of those lines;
\* every source line whose type is in the filter is still on the source,
\* unchanged.
C18_TransferAllMovesUnfiltered ==
    LastIs("transferAllItems") =>
        LET filters == FilterOf(lastOp.args)
            before == lastOp.pre[lastOp.source]
        IN /\ \A l \in Range(before) :
                 IF l.type \in filters
                 THEN l \in Range(items[lastOp.source])
                 ELSE LineIndex(items[lastOp.source], l.id) = 0
           /\ \A k \in Kinds :
                 k.type \notin filters
                    => After(lastOp.target, k)
                         = Before(lastOp.target, k) + Before(lastOp.source, k)

\* C19: a completed transferItems request whose one entry is an item id with
\* no quantity has transferred the whole current quantity of that line: the
\* line is gone from the source and the target has gained its full quantity.
C19_TransferWithoutQuantityMovesAll ==
    (/\ LastIs("transferItems")
     /\ Len(lastOp.args) = 1
     /\ "id" \in DOMAIN lastOp.args[1]
     /\ "quantity" \notin DOMAIN lastOp.args[1])
        => LET before == lastOp.pre[lastOp.source]
               line == before[LineIndex(before, lastOp.args[1].id)]
               k == [name |-> line.name, type |-> line.type]
           IN /\ LineIndex(items[lastOp.source], line.id) = 0
              /\ After(lastOp.target, k) = Before(lastOp.target, k) + line.qty

\* The attribute operations.
AttributeOps ==
    {"addAttributes", "removeAttributes", "transferAttributes", "transferAllAttributes"}

\* C20: in every state reached by attribute requests alone (addAttributes,
\* removeAttributes, transferAttributes, transferAllAttributes, as accepted by
\* the entry points), every attribute value on every actor is >= 0.
C20_AttributesNeverNegative ==
    (/\ lastOp.op \in AttributeOps \cup {"none"}
     /\ prevOp.op \in AttributeOps \cup {"none"})
        => \A p \in Piles : attrs[p] >= 0

\* C21: a completed removeAttributes request with requested quantity r on an
\* attribute of current value c has stored max(0, c - r) and reports min(r, c)
\* as removed; in the array form the attribute is stored as 0 and c is reported.
C21_RemoveAttributesClamps ==
    LastIs("removeAttributes") =>
        LET c == lastOp.preAttrs[lastOp.target]
            entries == lastOp.args.entries
            isArray == lastOp.args.isArray
        IN /\ Len(lastOp.res.entries) = Len(entries)
           /\ \A i \in 1..Len(entries) :
                 /\ lastOp.res.entries[i].attribute = entries[i].attribute
                 /\ lastOp.res.entries[i].quantity
                      = IF isArray THEN c ELSE Min2(entries[i].quantity, c)
                 /\ attrs[lastOp.target]
                      = IF isArray THEN 0 ELSE Max2(0, c - entries[i].quantity)
           /\ (entries = <<>> /\ exists[lastOp.target]) => attrs[lastOp.target] = c

\* C21's case: more was requested than the attribute held.
C21_Witness ==
    /\ LastIs("removeAttributes")
    /\ ~lastOp.args.isArray
    /\ Len(lastOp.args.entries) = 1
    /\ lastOp.preAttrs[lastOp.target] > 0
    /\ lastOp.args.entries[1].quantity > lastOp.preAttrs[lastOp.target]
    /\ attrs[lastOp.target] = 0

\* The amount a transferAttributes request moves: min(requested, available),
\* all of it in the array form, nothing when no attribute is named.
C22_Moved ==
    LET c == lastOp.preAttrs[lastOp.source]
    IN IF lastOp.args.entries = <<>> THEN 0
       ELSE IF lastOp.args.isArray THEN c
       ELSE Min2(lastOp.args.entries[1].quantity, c)

\* C22: a completed transferAttributes request lowers the attribute on the
\* source by exactly the amount it raises it on the target, and that amount is
\* min(requested, available), never the requested amount when less was there.
\* (A source document deleted by a request that named no attribute has no
\* attribute value left to compare.)
C22_TransferAttributesConserves ==
    LastIs("transferAttributes") =>
        /\ (exists[lastOp.source] \/ lastOp.args.entries # <<>>) =>
               lastOp.preAttrs[lastOp.source] - attrs[lastOp.source] = C22_Moved
        /\ attrs[lastOp.target] - lastOp.preAttrs[lastOp.target] = C22_Moved

\* C22's case: more was requested than the source held, the target had some.
C22_Witness ==
    /\ LastIs("transferAttributes")
    /\ ~lastOp.args.isArray
    /\ lastOp.args.entries # <<>>
    /\ lastOp.preAttrs[lastOp.source] > 0
    /\ lastOp.preAttrs[lastOp.target] > 0
    /\ lastOp.args.entries[1].quantity > lastOp.preAttrs[lastOp.source]
    /\ attrs[lastOp.target]
         = lastOp.preAttrs[lastOp.target] + lastOp.preAttrs[lastOp.source]

C24_TransferAllAttributesReturnsMoved ==
    LastIs("transferAllAttributes") =>
        LET c == lastOp.preAttrs[lastOp.source]
        IN IF c > 0
           THEN /\ Len(lastOp.res.entries) = 1
                /\ lastOp.res.entries[1].quantity = c
           ELSE lastOp.res.entries = <<>>

\* A standalone addAttributes request: after the write to the target, its macro
\* (if it is a pile with one) has run with action addAttributes and a re-render
\* of the target has been requested.
C25_Standalone ==
    LastIs("addAttributes") =>
        LET log == lastOp.log
            t == lastOp.target
            written == IndicesOf(log, Write(t))
        IN /\ written # {}
           /\ \E i \in IndicesOf(log, Broadcast("RERENDER_PILE_INVENTORY", t)) :
                 \A j \in written : j < i
           /\ (lastOp.preExists[t] /\ cfg[t].enabled /\ cfg[t].macro \in Macros)
                 => \E i \in IndicesOf(log, MacroRun(t, "addAttributes")) :
                       \A j \in written : j < i

\* addAttributes as a sub-step of a transfer: no macro run with action
\* addAttributes, and no re-render of the target other than the one the
\* transfer itself requests (transferAttributes: one; transferAllAttributes:
\* none, it re-renders the source alone).
C25_SubStep ==
    (lastOp.op \in {"transferAttributes", "transferAllAttributes"} /\ lastOp.status = "ok") =>
        LET log == lastOp.log
        IN /\ \A i \in 1..Len(log) : log[i].e = "macro" => log[i].action # "addAttributes"
           /\ Cardinality(IndicesOf(log, Broadcast("RERENDER_PILE_INVENTORY", lastOp.target)))
                 <= (IF lastOp.op = "transferAttributes" THEN 1 ELSE 0)

\* C25: addAttributes on its own runs the target pile's macro with action
\* addAttributes and requests a re-render after the attribute values are stored;
\* as a sub-step of transferAttributes or transferAllAttributes it runs no macro
\* and requests no re-render.
C25_AddAttributesMacroAndRefresh == C25_Standalone /\ C25_SubStep

\* The positions, in the effects of the last request, of its store writes and
\* of its broadcasts and macro runs.
C28_Writes == { i \in 1..Len(lastOp.log) : lastOp.log[i].e = "write" }
C28_Outs == { i \in 1..Len(lastOp.log) : lastOp.log[i].e \in {"executeForEveryone", "macro"} }

\* Every broadcast and macro run of a request comes after all its writes.
C28_WritesFirst ==
    lastOp.status \in {"ok", "failed"} =>
        \A i \in C28_Writes, j \in C28_Outs : i < j

\* A request that failed at a write (every configured macro exists, so no
\* macro run failed) has broadcast nothing and run no macro.
C28_FailedIsSilent ==
    (lastOp.status = "failed" /\ \A p \in Piles : cfg[p].macro \in Macros \cup {""}) =>
        C28_Outs = {}

\* C28: in every mutating request each broadcast and each macro run happens
\* only after the request's store writes have completed, and a request one of
\* whose writes failed has broadcast nothing and run no macro.
C28_EffectsAfterPersistence == C28_WritesFirst /\ C28_FailedIsSilent

\* C30: a deleteItemPile call on a target that is not a valid pile when it is
\* made is rejected, sends no DELETE_PILE request, and the store (the
\* document's existence included) is as it was.
C30_DeleteOfNonPileIsRejected ==
    (lastOp.op = "deleteItemPile"
       /\ ~(lastOp.preExists[lastOp.target] /\ cfg[lastOp.target].enabled)) =>
        /\ lastOp.status = "failed"
        /\ lastOp.log = <<>>
        /\ exists = lastOp.preExists
        /\ items = lastOp.pre
        /\ attrs = lastOp.preAttrs

\* C30's case: the call on an existing document that is no pile was rejected
\* and the document is still there, after a call on a pile had deleted it.
C30_Witness ==
    /\ prevOp.op = "deleteItemPile" /\ prevOp.status = "ok"
    /\ ~exists[prevOp.target]
    /\ lastOp.op = "deleteItemPile" /\ lastOp.status = "failed"
    /\ lastOp.target # prevOp.target
    /\ ~cfg[lastOp.target].enabled
    /\ exists[lastOp.target]

\* C31: addAttributes, removeAttributes (object form) and transferAttributes
\* (object form) dispatch a request to the executor only when every supplied
\* quantity is a real number greater than 0; otherwise they throw before the
\* dispatch, so no request with such a quantity is ever executed.
C31_QuantitiesValidatedBeforeDispatch ==
    (/\ lastOp.op \in {"addAttributes", "removeAttributes", "transferAttributes"}
     /\ lastOp.status \in {"ok", "failed"}
     /\ ~lastOp.args.isArray)
        => \A i \in 1..Len(lastOp.args.entries) :
              /\ is_real_number(lastOp.args.entries[i].quantity)
              /\ lastOp.args.entries[i].quantity > 0

C38_FailedTransferKeepsSource ==
    (lastOp.op = "transferItems" /\ lastOp.status = "failed")
        => items[lastOp.source] = lastOp.pre[lastOp.source]

\* C40: after any sequence of addItems requests on a pile that starts with at
\* most one line per item identity, a request with two entries of the same
\* identity included, the pile holds at most one line per item identity.
C40_LinesOf(lines, k) ==
    { i \in 1..Len(lines) : lines[i].name = k.name /\ lines[i].type = k.type }
C40_OnlyAdds ==
    /\ lastOp.op \in {"none", "addItems"}
    /\ prevOp.op \in {"none", "addItems"}
C40_OneLinePerIdentity ==
    C40_OnlyAdds =>
        \A p \in Piles : \A k \in Kinds : Cardinality(C40_LinesOf(items[p], k)) <= 1

\* ===================================== the creation and drop claims

\* C34: across CREATE_PILE requests without an override actor name, also when
\* their handlers overlap in time, the default template actor is provisioned
\* at most once: two default actors never coexist.
C34_DefaultActorProvisionedOnce == Cardinality(DefaultActors) <= 1

\* C35: whenever a non-privileged user's drop is dispatched as DROP_ITEMS with
\* an existing pile as target, that pile is not locked and the distance from
\* the dropping actor's token to it does not exceed that pile's own max
\* distance, also when several piles lie at the drop location.
C35_ToPile(i) ==
    /\ handlers[i].op = "DROP_ITEMS"
    /\ ~handlers[i].isGM
    /\ handlers[i].targetUuid # ""
C35_DropTargetUnlockedAndInRange ==
    \A i \in 1..Len(handlers) :
        C35_ToPile(i) =>
            /\ ~isItemPileLocked(site[handlers[i].targetUuid])
            /\ handlers[i].sourceToken =>
                   ~tooFar(handlers[i].distance, site[handlers[i].targetUuid])

\* C36: when an item is dropped from a source actor onto a location with no
\* target pile, the new pile holds exactly the quantity removed from the
\* source, the smaller of the requested and the available quantity, and the
\* source's quantity after the removal plus the new pile's is the source's
\* quantity before it.
C36_NewPile(i) ==
    /\ handlers[i].op = "DROP_ITEMS"
    /\ handlers[i].sourceUuid # ""
    /\ handlers[i].targetUuid = ""
    /\ handlers[i].token # 0
C37_Total(lines, k) == QtyOf(lines["A"], k) + QtyOf(lines["B"], k)
C37_TwoTransfers ==
    /\ Len(handlers) = 2
    /\ \A i \in 1..2 : /\ handlers[i].op = "TRANSFER_ITEMS"
                       /\ handlers[i].pc = "done"
                       /\ Len(handlers[i].items) = 1
    /\ handlers[1].pre = handlers[2].pre
    /\ handlers[1].sourceUuid = handlers[2].sourceUuid
    /\ handlers[1].items[1].id = handlers[2].items[1].id
C37_ConcurrentTransfersConserve ==
    C37_TwoTransfers => \A k \in Kinds : C37_Total(items, k) = C37_Total(handlers[1].pre, k)

\* C39: a REMOVE_ITEMS request naming an item id that is no longer on the
\* target when the executor runs it is rejected without changing any line of
\* the target, the other lines named in the same request included, and the
\* rejected handler does nothing after that.
C39_Stale(i) ==
    /\ handlers[i].op = "REMOVE_ITEMS"
    /\ handlers[i].pc = "sent"
    /\ exists[handlers[i].targetUuid]
    /\ \E n \in 1..Len(handlers[i].items) :
           LineIndex(items[handlers[i].targetUuid], handlers[i].items[n].id) = 0
C39_StaleRemoveChangesNothing ==
    [][\A i \in 1..Len(handlers) :
          /\ (C39_Stale(i) /\ handlers'[i] # handlers[i]) =>
                 /\ handlers'[i].pc = "failed"
                 /\ items' = items
                 /\ exists' = exists
          /\ handlers[i].pc = "failed" => handlers'[i] = handlers[i]]_vars
C39_Witness ==
    \E i \in 1..Len(handlers) :
        LET h == handlers[i]
        IN /\ h.op = "REMOVE_ITEMS"
           /\ h.pc = "failed"
           /\ exists[h.targetUuid]
           /\ Len(h.items) = 2
           /\ LineIndex(items[h.targetUuid], h.items[1].id) = 0
           /\ LineIndex(items[h.targetUuid], h.items[2].id) # 0
           /\ QtyOf(items[h.targetUuid], [name |-> "gem", type |-> "treasure"]) = 1

\* ================================================ the container claims

\* The requests whose handler has read the store and has not yet broadcast.
MidHandler == { i \in 1..Len(reqs) : reqs[i].pc \in {"waiting", "written"} }

\* C6: on the executor, mutation handlers run one at a time to completion:
\* between a handler's read of the store and its broadcast no step of another
\* handler executes, so no two handlers are ever between those steps at once.
C6_HandlersRunOneAtATime == Cardinality(MidHandler) <= 1

\* C8: in every state reachable through the public pile operations,
\* updateItemPile with arbitrary newData among them, locked implies closed.
C8_LockedImpliesClosed == pile.locked => pile.closed

\* C8 as amended: reached through openItemPile, closeItemPile, lockItemPile,
\* unlockItemPile and the two toggles alone (no direct updateItemPile call),
\* in whatever order their handlers overlap, locked implies closed.
C8_LockedImpliesClosedWithoutRawUpdate == ~rawUpdate => (pile.locked => pile.closed)

\* C8's case: a lock request on an open container has written the store.
C8_Witness ==
    /\ ~rawUpdate
    /\ lastWriter # 0
    /\ reqs[lastWriter].op \in {"lockItemPile", "toggleItemPileLocked"}
    /\ ~reqs[lastWriter].oldData.closed
    /\ pile.locked

\* C9: once a lockItemPile request that no hook vetoed has written the store of
\* an enabled container, whatever the state before (OPEN, CLOSED or LOCKED),
\* the stored pile has closed = true and locked = true.
C9_LockForcesClosed ==
    \A i \in 1..Len(reqs) :
        (reqs[i].op = "lockItemPile" /\ reqs[i].was.enabled /\ reqs[i].was.isContainer)
            => /\ reqs[i].pc # "refused"
               /\ reqs[i].pc # "vetoed" =>
                    /\ <<"closed", TRUE>> \in reqs[i].newData
                    /\ <<"locked", TRUE>> \in reqs[i].newData
               /\ lastWriter = i => (pile.closed /\ pile.locked)

\* C9's case: the lock of a container that was open has been written.
C9_Witness ==
    /\ lastWriter # 0
    /\ reqs[lastWriter].op = "lockItemPile"
    /\ reqs[lastWriter].pc = "done"
    /\ ~reqs[lastWriter].was.closed
    /\ ~reqs[lastWriter].oldData.closed
    /\ pile.closed /\ pile.locked

\* A call of openItemPile, or of toggleItemPileClosed, made on a locked
\* container.
OpenOnLocked(i) ==
    /\ reqs[i].op \in {"openItemPile", "toggleItemPileClosed"}
    /\ reqs[i].was.enabled /\ reqs[i].was.isContainer
    /\ reqs[i].was.closed /\ reqs[i].was.locked

CloseOnClosed(i) ==
    /\ reqs[i].op = "closeItemPile"
    /\ reqs[i].was.enabled /\ reqs[i].was.isContainer /\ reqs[i].was.closed
    /\ reqs[i].pc \in {"waiting", "written", "done"}
    /\ reqs[i].oldData.closed

\* C11: closeItemPile on an already-closed enabled container is idempotent: no
\* close sound, an empty diff computed and broadcast, the stored state left as
\* it was by the handler's write, no UPDATE or CLOSE hook on any participant
\* and no closeItemPile macro.
C11_CloseOnClosedIsIdempotent ==
    \A i \in 1..Len(reqs) :
        CloseOnClosed(i)
            => /\ reqs[i].sounds = <<>>
               /\ reqs[i].diff = {}
               /\ reqs[i].pc \in {"written", "done"} => reqs[i].data = reqs[i].pre
               /\ reqs[i].pc = "done" => reqs[i].fired = <<>>
               /\ diffMacros(reqs[i].data, reqs[i].diff) = <<>>

\* C12: for openItemPile, closeItemPile, lockItemPile and unlockItemPile, when
\* the operation's own pre-transition hook (PRE_OPEN, PRE_CLOSE, PRE_LOCK,
\* PRE_UNLOCK) returns false, no UPDATE_PILE request is dispatched, so the
\* call is left "vetoed" and its handler never writes the store.
C12_PreHookVetoes ==
    \A i \in 1..Len(reqs) :
        (/\ reqs[i].op \in {"openItemPile", "closeItemPile", "lockItemPile", "unlockItemPile"}
         /\ ~reqs[i].preHook)
            => reqs[i].pc = "vetoed"

\* The macro actions owed to the flips of the stored flags from pre to data.
FlipMacros(pre, data) ==
    { m \in {"closeItemPile", "openItemPile", "lockItemPile", "unlockItemPile"} :
        \/ m = "closeItemPile" /\ ~pre.closed /\ data.closed
        \/ m = "openItemPile" /\ pre.closed /\ ~data.closed
        \/ m = "lockItemPile" /\ ~pre.locked /\ data.locked
        \/ m = "unlockItemPile" /\ pre.locked /\ ~data.locked }

\* C26: for every UPDATE_PILE request on an enabled container whose handler has
\* finished, overlapping handlers included, the handler made the closeItemPile
\* macro call exactly if its write flipped the stored closed from false to
\* true, and likewise openItemPile, lockItemPile and unlockItemPile; each at most
\* once, none for a flag its write did not flip.
C26_MacroOncePerStoredFlip ==
    \A i \in 1..Len(reqs) :
        (reqs[i].pc = "done" /\ reqs[i].data.enabled /\ reqs[i].data.isContainer) =>
            LET called == diffMacros(reqs[i].data, reqs[i].diff)
            IN /\ Range(called) = FlipMacros(reqs[i].pre, reqs[i].data)
               /\ Cardinality(Range(called)) = Len(called)

\* C27: the diff a finished handler broadcast with UPDATED_PILE holds exactly the
\* keys whose stored value differs between the store right before that
\* request's write and right after it.
C27_DiffIsStoredChange ==
    \A i \in 1..Len(reqs) :
        reqs[i].pc = "done" => reqs[i].diff = diffObject(reqs[i].pre, reqs[i].data)

\* The operations of C29, and a call of one of them on a target that is not
\* enabled or not a container or, for rattleItemPile, not locked.
C29_Ops ==
    {"openItemPile", "closeItemPile", "toggleItemPileClosed", "lockItemPile",
     "unlockItemPile", "toggleItemPileLocked", "rattleItemPile"}

C29_OffTarget(i) ==
    /\ reqs[i].op \in C29_Ops
    /\ \/ ~reqs[i].was.enabled
       \/ ~reqs[i].was.isContainer
       \/ reqs[i].op = "rattleItemPile" /\ ~reqs[i].was.locked

\* C29: such a call returns false, has called no hook, played no sound and
\* dispatched no update: no handler ever runs for it.
C29_OffTargetDoesNothing ==
    \A i \in 1..Len(reqs) :
        C29_OffTarget(i) =>
            /\ reqs[i].pc = "refused"
            /\ reqs[i].called = {}
            /\ reqs[i].sounds = <<>>
            /\ reqs[i].newData = {}
            /\ lastWriter # i

\* C29's case: a locked container was unlocked, and the rattle that followed
\* was refused; nothing was played, nothing broadcast for it.
C29_Witness ==
    /\ Len(reqs) = 2
    /\ reqs[1].op = "unlockItemPile" /\ reqs[1].pc = "done" /\ reqs[1].was.locked
    /\ reqs[2].op = "rattleItemPile" /\ reqs[2].pc = "refused"
    /\ reqs[2].was.enabled /\ reqs[2].was.isContainer /\ ~reqs[2].was.locked
    /\ sounds = <<>>
    /\ Broadcast("CALL_HOOK", "PILE.RATTLE") \notin Range(effects)

\* A click by a user who is not a GM on the token of a closed, locked container
\* with a finite max distance.
C32_LockedClick(i) ==
    /\ reqs[i].op = "itemPileClicked"
    /\ ~reqs[i].by.isGM /\ reqs[i].by.finite
    /\ reqs[i].was.enabled /\ reqs[i].was.isContainer
    /\ reqs[i].was.closed /\ reqs[i].was.locked

\* The click came to a warning, or to nothing, and to nothing else.
C32_Only(i, status) ==
    /\ reqs[i].pc = status
    /\ reqs[i].sounds = <<>> /\ reqs[i].called = {} /\ reqs[i].newData = {}
    /\ lastWriter # i

\* The click rattled the pile: locked sound, RATTLE hook, no update sent.
C32_Rattled(i) ==
    /\ reqs[i].pc = "rattled"
    /\ reqs[i].sounds = <<"lockedSound">> /\ "RATTLE" \in reqs[i].called
    /\ reqs[i].newData = {}
    /\ lastWriter # i

\* C32: for such a click, if none of the user's owned tokens is within the
\* distance a too-far warning is issued, nothing rattles and nothing changes;
\* if an owned token is within range rattleItemPile fires and the click writes
\* nothing, so closed and locked stay true.
C32_LockedClickByOwnedTokens ==
    \A i \in 1..Len(reqs) :
        C32_LockedClick(i) =>
            IF reqs[i].by.ownedNear THEN C32_Rattled(i) ELSE C32_Only(i, "warnedTooFar")

\* C32 as amended: with a GM connected, the tokens that count are the user's
\* controlled tokens if any token is controlled, else all tokens; if none of
\* those the user owns is within the distance the too-far warning is issued,
\* if one is the pile rattles.  With no GM connected the click only warns of
\* that.  In no case does the click write the pile.
C32_LockedClickByCandidateTokens ==
    \A i \in 1..Len(reqs) :
        C32_LockedClick(i) =>
            IF ~reqs[i].by.gmConnected THEN C32_Only(i, "warnedNoGM")
            ELSE IF reqs[i].by.candidateNear THEN C32_Rattled(i)
            ELSE C32_Only(i, "warnedTooFar")

\* C32's cases: a click with the selected token out of range (another owned
\* token stood near) was warned off, the next click, in range, rattled the
\* pile, which is still closed and locked.
C32_Witness ==
    /\ Len(reqs) = 2
    /\ C32_LockedClick(1) /\ reqs[1].by.gmConnected
    /\ reqs[1].by.ownedNear /\ ~reqs[1].by.candidateNear
    /\ reqs[1].pc = "warnedTooFar"
    /\ C32_LockedClick(2) /\ reqs[2].by.candidateNear
    /\ reqs[2].pc = "rattled"
    /\ sounds = <<"lockedSound">>
    /\ pile.closed /\ pile.locked


====
